---- MODULE Spec2Model ----
(***************************************************************************)
(* Model of the Worksection -> Supabase user synchronisation engine:       *)
(*   - ProgressTracker (utils/progress-tracker.js): the persisted ledger   *)
(*   - createUsers / createUser (sync/user-create.js): the create phase    *)
(*   - softDeleteUsers / softDeleteUser (sync/user-delete.js)              *)
(*   - compareUsers (scripts/compare-users.js) and the plan filters of     *)
(*     syncUsers (sync/sync-manager.js)                                    *)
(*   - loadReferenceData (sync/sync-helpers.js) and syncUsers as a whole   *)
(*   - retry (utils/retry.js) and the notifier (services/telegram.js)      *)
(*                                                                         *)
(* The specifications share the variables:                                 *)
(*   Spec         the batch phases, invoked repeatedly, with process       *)
(*                termination between and inside invocations               *)
(*   SpecCompare  the comparator and the plan filters over bounded         *)
(*                source / target snapshots                                *)
(*   SpecUnit     the same over longer snapshots of one tracked unit       *)
(*   SpecRun      one run of syncUsers: reference data, comparator,        *)
(*                create phase, difference log, soft-delete phase          *)
(*   SpecOps      createUser and softDeleteUser as single operations       *)
(*                against a store of identities and profile rows           *)
(*   SpecRetry    one call of retry over drawn options and thunk answers   *)
(*   SpecLedger   the create phase over a plan longer than the write       *)
(*                period of the ledger, the write being a step of its own  *)
(*   SpecTwo      two invocations of createUsers sharing the tracker       *)
(*   SpecPace     the loop of a phase from await to await: the remote      *)
(*                call of an item, its bookkeeping, the pause              *)
(*   SpecRead     one retry-wrapped read of loadReferenceData and the      *)
(*                test of the error it returns                             *)
(*   SpecResume   one run of syncUsers started over a ledger file that an  *)
(*                ended process left behind                                *)
(*                                                                         *)
(* Abstractions: timestamps of the ledger (startTime, lastUpdate), log     *)
(* output and the pacing waits carry no state that any operation reads and *)
(* are left out (retry keeps its waits and its log entries); the file      *)
(* system holding the ledger completes every write it is given time for;   *)
(* the payload of a remote call is reduced to the key it is issued for,    *)
(* and a detail entry of the statistics to its email, unit and status (the *)
(* error text and the user id it also carries are not kept).               *)
(***************************************************************************)
EXTENDS Integers, Sequences, FiniteSets, TLC

(***************************************************************************)
(* Bounds of the model                                                     *)
(***************************************************************************)
MaxItems == 3       \* most items of the create and soft-delete plans of a run together
MaxWs == 2          \* longest source snapshot
MaxSupa == 2        \* longest target snapshot
MaxUnitWs == 3      \* longest source snapshot of the one-unit scenario
MaxUnitSupa == 3    \* longest target snapshot of the one-unit scenario
MaxRunWs == 2       \* longest source snapshot of a run of syncUsers
MaxRunSupa == 2     \* longest target snapshot of a run of syncUsers
MaxAttempts == 4    \* largest maxRetries option passed to retry
MaxLedger == 11     \* items of the long create plan
MaxShared == 2      \* items of the create plan that two invocations share
MaxPaced == 4       \* items of a batch loop followed from await to await

(***************************************************************************)
(* Program constants                                                       *)
(***************************************************************************)
SaveEvery == 10     \* addProcessed persists when length % 10 === 0

VARIABLES
  \* ---- persisted and in-memory ledger (ProgressTracker singleton)
  file,             \* <<>> when sync-progress.json is absent, else <<progress>>
  progress,         \* progressTracker.progress
  \* ---- the running phase (createUsers / softDeleteUsers)
  cfg,              \* syncConfig.sync: [dryRun, continueOnError]
  fn,               \* "none" | "create" | "delete": the function invoked
  pc,               \* "idle" | "loop" | "finish" | "returned"
  plan,             \* the argument usersToCreate / usersToDelete
  unprocessedUsers, \* createUsers: result of filterUnprocessed
  validUsers,       \* the items the loop runs over
  i,                \* loop index (0-based, as in the source)
  stats,            \* the statistics object being built / returned
  halted,           \* TRUE once the loop was left by break
  \* ---- history of the current invocation
  calls,            \* remote calls issued, in order: [op, key]
  atStart,          \* [file, progress] as they were when the phase was invoked
  \* ---- comparator (compareUsers) and plan filters (syncUsers)
  wsUsers,          \* source snapshot (ws.getUsers())
  supaUsers,        \* target snapshot (supabase.getUsers())
  cpc,              \* "off" | "fetched" | "compared" | "planned"
  compareStats,     \* result of compareUsers
  usersToCreate,    \* syncUsers: create plan
  usersToDelete,    \* syncUsers: soft-delete plan
  \* ---- a run of syncUsers
  spc,              \* "off" | "start" | "compare" | "create" | "delete" |
                    \* "returned" | "caught" | "exited": where the run is
  sendNotifications, \* the argument of syncUsers
  refData,          \* <<>>, then <<the reference tables read and the outcome>>
  finalStats,       \* finalStats.users and finalStats.details.errors
  runCalls,         \* remote writes of the phases that have returned, in order
  notified,         \* the notifier calls of the run, in order: [kind, delivered]
  \* ---- a single remote operation applied to a target store
  arg,              \* the arguments, the remote answers and the store before
  res,              \* <<>> before the call, then <<result and store after>>
  \* ---- a call of retry(fn, options)
  rt,               \* <<>>, else <<the options, the thunk's answers, the attempt,
                    \* the invocations and the waits so far, the outcome>>
  \* ---- two invocations of createUsers in one process
  inv,              \* <<>>, else <<the locals of each invocation>>
  \* ---- a batch loop followed from await to await
  lp                \* <<>>, else <<the loop's inputs, its index, the items in
                    \* flight and what it has done so far, in order>>

trackerVars == <<file, progress>>
phaseVars == <<cfg, fn, pc, plan, unprocessedUsers, validUsers, i, stats, halted,
               calls, atStart>>
planVars == <<usersToCreate, usersToDelete>>
cmpVars == <<wsUsers, supaUsers, cpc, compareStats>>
runVars == <<spc, sendNotifications, refData, finalStats, runCalls, notified>>
opVars == <<arg, res, rt, inv, lp>>
vars == <<trackerVars, phaseVars, planVars, cmpVars, runVars, opVars>>

(***************************************************************************)
(* Generic helpers                                                         *)
(***************************************************************************)
RECURSIVE SeqsUpTo(_, _)
SeqsUpTo(S, n) ==
  IF n = 0 THEN {<<>>}
  ELSE LET shorter == SeqsUpTo(S, n - 1)
       IN shorter \cup {Append(s, x) : s \in {t \in shorter : Len(t) = n - 1}, x \in S}

Range(s) == {s[k] : k \in 1..Len(s)}

Count(s, P(_)) == Cardinality({k \in 1..Len(s) : P(s[k])})

(***************************************************************************)
(* ProgressTracker                                                         *)
(* A tracker value t is [progress, file].                                  *)
(***************************************************************************)
NewProgress(phase) ==
  [phase |-> phase,
   processedEmails |-> <<>>,
   stats |-> [created |-> 0, deleted |-> 0, errors |-> 0]]

\* constructor(): phase null, empty ledger, zero counters
ConstructorProgress == NewProgress("null")

save(t) == [t EXCEPT !.file = <<t.progress>>]

init(t, phase) == save([t EXCEPT !.progress = NewProgress(phase)])

\* load(): true and progress replaced when the file is there, else false
hasProgress(t) == t.file # <<>>
load(t) == IF hasProgress(t) THEN [t EXCEPT !.progress = t.file[1]] ELSE t

\* lines 81-91: the key is pushed and the counters are updated, in memory
push(t, email, success) ==
  LET p == t.progress
      st == IF success
            THEN IF p.phase = "create"
                 THEN [p.stats EXCEPT !.created = @ + 1]
                 ELSE IF p.phase = "delete"
                      THEN [p.stats EXCEPT !.deleted = @ + 1]
                      ELSE p.stats
            ELSE [p.stats EXCEPT !.errors = @ + 1]
  IN [t EXCEPT !.progress =
        [p EXCEPT !.processedEmails = Append(@, email), !.stats = st]]

\* line 94
saveDue(t) == Len(t.progress.processedEmails) % SaveEvery = 0

addProcessed(t, email, success) ==
  LET t1 == push(t, email, success)
  IN IF saveDue(t1) THEN save(t1) ELSE t1

isProcessed(t, email) ==
  \E k \in 1..Len(t.progress.processedEmails) : t.progress.processedEmails[k] = email

\* mutant: the filter lets every item through
filterUnprocessedAll(t, users) == users

filterUnprocessed(t, users) ==
  LET keep(u) == ~isProcessed(t, u.email)
  IN SelectSeq(users, keep)

clear(t) == [progress |-> ConstructorProgress, file |-> <<>>]

(***************************************************************************)
(* sync-config.js and the reference data the phases read                   *)
(***************************************************************************)
Cfgs == [dryRun : BOOLEAN, continueOnError : BOOLEAN]

\* refData.departmentMap: the units loaded by loadReferenceData
departmentMap == {"D1", "D2"}

(***************************************************************************)
(* validateUser                                                            *)
(* Strings are drawn from a small universe; HasAt says which contain "@".  *)
(***************************************************************************)
LedgerEmails ==
  <<"k01@x", "k02@x", "k03@x", "k04@x", "k05@x", "k06@x", "k07@x", "k08@x",
    "k09@x", "k10@x", "k11@x", "k12@x", "k13@x">>

HasAt(email) ==
  email \in {"a@x", "b@x", "c@x", "d@x", "A@x", "C@x"} \cup
            {LedgerEmails[k] : k \in 1..Len(LedgerEmails)}

\* mutant: every item passes
validateUserAccept(user) == [valid |-> TRUE, errors |-> <<>>]

validateUser(user) ==
  LET e1 == IF user.email = "" THEN <<"email_missing">>
            ELSE IF ~HasAt(user.email) THEN <<"email_format">> ELSE <<>>
      e2 == IF user.name = "" \/ user.name = " " THEN <<"name_empty">> ELSE <<>>
      e3 == IF user.department = "" THEN <<"department_missing">>
            ELSE IF user.department \notin departmentMap
                 THEN <<"department_unknown">> ELSE <<>>
      errors == e1 \o e2 \o e3
  IN [valid |-> Len(errors) = 0, errors |-> errors]

(***************************************************************************)
(* createUser: the remote answers are the inputs                           *)
(***************************************************************************)
Responses ==
  [auth : {"ok", "error"},
   profile : {"ok", "error"},
   role : {"ok", "duplicate", "error"},
   delete : {"ok", "error", "throw"}]

Call(op, key) == [op |-> op, key |-> key]

\* mutant: a failed profile or role step is reported without the rollback
createUserNoRollback(email, resp) ==
  LET cCreate == <<Call("auth.createUser", email)>>
      cProfile == cCreate \o <<Call("profiles.upsert", email)>>
      cRole == cProfile \o <<Call("user_roles.insert", email)>>
      failed(cs, err) ==
        [success |-> FALSE, userId |-> "null", error |-> err, calls |-> cs,
         exists |-> TRUE]
  IN IF resp.auth = "error"
     THEN [success |-> FALSE, userId |-> "null", error |-> "Auth error",
           calls |-> cCreate, exists |-> FALSE]
     ELSE IF resp.profile = "error"
          THEN failed(cProfile, "Profile error")
          ELSE IF resp.role = "error"
               THEN failed(cRole, "Role error")
               ELSE [success |-> TRUE, userId |-> email, error |-> "null",
                     calls |-> cRole, exists |-> TRUE]

\* mutant: an already assigned role is a failure like any other
createUserDuplicateFails(email, resp) ==
  LET cCreate == <<Call("auth.createUser", email)>>
      cProfile == cCreate \o <<Call("profiles.upsert", email)>>
      cRole == cProfile \o <<Call("user_roles.insert", email)>>
      del == <<Call("auth.deleteUser", email)>>
      rolledBack(cs, err) ==
        [success |-> FALSE, userId |-> "null",
         error |-> IF resp.delete = "throw" THEN "Delete error" ELSE err,
         calls |-> cs \o del,
         exists |-> resp.delete # "ok"]
  IN IF resp.auth = "error"
     THEN [success |-> FALSE, userId |-> "null", error |-> "Auth error",
           calls |-> cCreate, exists |-> FALSE]
     ELSE IF resp.profile = "error"
          THEN rolledBack(cProfile, "Profile error")
          ELSE IF resp.role # "ok"
               THEN rolledBack(cRole, "Role error")
               ELSE [success |-> TRUE, userId |-> email, error |-> "null",
                     calls |-> cRole, exists |-> TRUE]

\* result: [success, userId, error, calls, exists] where exists tells whether
\* the identity is in the auth store when createUser returns
createUser(email, resp) ==
  LET cCreate == <<Call("auth.createUser", email)>>
      cProfile == cCreate \o <<Call("profiles.upsert", email)>>
      cRole == cProfile \o <<Call("user_roles.insert", email)>>
      del == <<Call("auth.deleteUser", email)>>
      rolledBack(cs, err) ==
        [success |-> FALSE, userId |-> "null",
         error |-> IF resp.delete = "throw" THEN "Delete error" ELSE err,
         calls |-> cs \o del,
         exists |-> resp.delete # "ok"]
  IN IF resp.auth = "error"
     THEN [success |-> FALSE, userId |-> "null", error |-> "Auth error",
           calls |-> cCreate, exists |-> FALSE]
     ELSE IF resp.profile = "error"
          THEN rolledBack(cProfile, "Profile error")
          ELSE IF resp.role = "error"
               THEN rolledBack(cRole, "Role error")
               ELSE [success |-> TRUE, userId |-> email, error |-> "null",
                     calls |-> cRole, exists |-> TRUE]

(***************************************************************************)
(* softDeleteUser                                                          *)
(***************************************************************************)
UpdateResponses == {"ok", "error"}

\* loadReferenceData lines 395 and 431: the ids of the retired unit and of
\* its sub-unit
deletedDepartmentId == "dep:Udaleny"
deletedTeamId == "team:Udaleny"

\* mutant: the update also resets the position
softDeleteUpdateWide(user) ==
  [table |-> "profiles",
   set |-> [department_id |-> deletedDepartmentId, team_id |-> deletedTeamId,
            position_id |-> "null"],
   eq |-> user.user_id]

\* lines 20-26: the update that softDeleteUser sends
softDeleteUpdate(user) ==
  [table |-> "profiles",
   set |-> [department_id |-> deletedDepartmentId, team_id |-> deletedTeamId],
   eq |-> user.user_id]

softDeleteUser(user, resp) ==
  [success |-> resp = "ok",
   error |-> IF resp = "ok" THEN "null" ELSE "Update error",
   calls |-> <<Call("profiles.update", softDeleteUpdate(user).eq)>>,
   update |-> softDeleteUpdate(user)]


(***************************************************************************)
(* Inputs of the phases: the fields of a plan item that the phases read    *)
(***************************************************************************)
User(email, name, department) ==
  [email |-> email, name |-> name, department |-> department]

CreateItems ==
  {User("a@x", "Ann Lee", "D1"),
   User("b@x", "Bob Ray", "D2"),
   User("c@x", "Cy Doe", "D1"),
   User("nomail", "No Mail", "D1")}

Profile(uid, email, dept) ==
  [user_id |-> uid, email |-> email, supa_department |-> dept]

DeleteItems ==
  {Profile("u1", "a@x", "D1"),
   Profile("u2", "b@x", "D2")}

\* the plans of one run: at most MaxItems items in both together
RunPlans ==
  {pl \in SeqsUpTo(CreateItems, MaxItems) \X SeqsUpTo(DeleteItems, MaxItems) :
     Len(pl[1]) + Len(pl[2]) <= MaxItems}

Tracker == [progress |-> progress, file |-> file]

NoStats == [created |-> 0, errors |-> 0, details |-> <<>>]

(***************************************************************************)
(* createUsers                                                             *)
(***************************************************************************)
\* mutant: the dry-run gate is never taken
createDryRunOff(c) == FALSE

\* line 233: the dry-run gate of createUsers
createDryRun(c) == c.dryRun

\* mutant: the loop is never left early
createBreakNever(c) == FALSE

\* line 276: leave the loop after a failed item
createBreak(c) == ~c.continueOnError

ValidationDetail(u, errors) ==
  [email |-> IF u.email = "" THEN "unknown" ELSE u.email,
   department |-> IF u.department = "" THEN "unknown" ELSE u.department,
   status |-> "validation_error"]

RECURSIVE ValidationDetails(_)
ValidationDetails(users) ==
  IF users = <<>> THEN <<>>
  ELSE LET v == validateUser(Head(users))
           rest == ValidationDetails(Tail(users))
       IN IF v.valid THEN rest
          ELSE <<ValidationDetail(Head(users), v.errors)>> \o rest

\* lines 171-239 (called from sync-manager when the plan is not empty):
\* load or init the ledger, filter, validate, early returns
CreateUsersStart(c) ==
  /\ pc = "idle"
  /\ Len(usersToCreate) > 0
  /\ LET t0 == Tracker
         t1 == IF hasProgress(t0) THEN load(t0) ELSE init(t0, "create")
         unp == filterUnprocessed(t1, usersToCreate)
         isValid(u) == validateUser(u).valid
         valid == SelectSeq(unp, isValid)
         invalid == ValidationDetails(unp)
     IN /\ cfg' = c
        /\ fn' = "create"
        /\ plan' = usersToCreate
        /\ unprocessedUsers' = unp
        /\ i' = 0
        /\ halted' = FALSE
        /\ calls' = <<>>
        /\ atStart' = t0
        /\ IF Len(unp) = 0
           THEN /\ progress' = clear(t1).progress
                /\ file' = clear(t1).file
                /\ validUsers' = <<>>
                /\ stats' = NoStats
                /\ pc' = "returned"
           ELSE /\ progress' = t1.progress
                /\ file' = t1.file
                /\ validUsers' = valid
                /\ stats' = [created |-> 0, errors |-> Len(invalid), details |-> invalid]
                /\ pc' = IF Len(valid) = 0 \/ createDryRun(c)
                         THEN "returned" ELSE "loop"
  /\ UNCHANGED <<planVars, cmpVars, runVars, opVars>>

\* lines 256-273: the statistics of one item
recordResult(st, user, success) ==
  IF success
  THEN [st EXCEPT !.created = @ + 1,
                  !.details = Append(@, [email |-> user.email,
                                         department |-> user.department,
                                         status |-> "created"])]
  ELSE [st EXCEPT !.errors = @ + 1,
                  !.details = Append(@, [email |-> user.email,
                                         department |-> user.department,
                                         status |-> "error"])]

\* lines 241-288: one iteration of the loop
CreateUsersStep(resp) ==
  /\ fn = "create" /\ pc = "loop"
  /\ LET user == validUsers[i + 1]
         r == createUser(user.email, resp)
         t1 == addProcessed(Tracker, user.email, r.success)
         stop == ~r.success /\ createBreak(cfg)
         t2 == IF stop THEN save(t1) ELSE t1
     IN /\ calls' = calls \o r.calls
        /\ stats' = recordResult(stats, user, r.success)
        /\ progress' = t2.progress
        /\ file' = t2.file
        /\ halted' = stop
        /\ IF stop
           THEN /\ i' = i
                /\ pc' = "finish"
           ELSE /\ i' = i + 1
                /\ pc' = IF i + 1 < Len(validUsers) THEN "loop" ELSE "finish"
  /\ UNCHANGED <<cfg, fn, plan, unprocessedUsers, validUsers, atStart>>
  /\ UNCHANGED <<planVars, cmpVars, runVars, opVars>>

\* lines 290-295: clear the ledger and return the statistics
CreateUsersFinish ==
  /\ fn = "create" /\ pc = "finish"
  /\ progress' = clear(Tracker).progress
  /\ file' = clear(Tracker).file
  /\ pc' = "returned"
  /\ UNCHANGED <<cfg, fn, plan, unprocessedUsers, validUsers, i, stats, halted,
                 calls, atStart>>
  /\ UNCHANGED <<planVars, cmpVars, runVars, opVars>>

(***************************************************************************)
(* softDeleteUsers                                                         *)
(***************************************************************************)
\* mutant: the dry-run gate is never taken
deleteDryRunOff(c) == FALSE

\* line 65: the dry-run gate of softDeleteUsers
deleteDryRun(c) == c.dryRun

\* line 96: leave the loop after a failed item
deleteBreak(c) == ~c.continueOnError

\* lines 56-71 (called from sync-manager when the plan is not empty):
\* statistics object, dry-run return
SoftDeleteUsersStart(c) ==
  /\ pc = "idle"
  /\ Len(usersToDelete) > 0
  /\ cfg' = c
  /\ fn' = "delete"
  /\ plan' = usersToDelete
  /\ unprocessedUsers' = <<>>
  /\ validUsers' = usersToDelete
  /\ i' = 0
  /\ halted' = FALSE
  /\ calls' = <<>>
  /\ atStart' = Tracker
  /\ stats' = [deleted |-> 0, errors |-> 0, details |-> <<>>]
  /\ pc' = IF deleteDryRun(c) THEN "returned" ELSE "loop"
  /\ UNCHANGED <<trackerVars, planVars, cmpVars, runVars, opVars>>

\* lines 73-107: one iteration of the loop
SoftDeleteUsersStep(resp) ==
  /\ fn = "delete" /\ pc = "loop"
  /\ LET user == validUsers[i + 1]
         r == softDeleteUser(user, resp)
         stop == ~r.success /\ deleteBreak(cfg)
     IN /\ calls' = calls \o r.calls
        /\ stats' = IF r.success
                    THEN [stats EXCEPT !.deleted = @ + 1,
                            !.details = Append(@, [email |-> user.email,
                                                   from_department |-> user.supa_department,
                                                   status |-> "moved_to_deleted"])]
                    ELSE [stats EXCEPT !.errors = @ + 1,
                            !.details = Append(@, [email |-> user.email,
                                                   from_department |-> user.supa_department,
                                                   status |-> "error"])]
        /\ halted' = stop
        /\ IF stop
           THEN /\ i' = i
                /\ pc' = "finish"
           ELSE /\ i' = i + 1
                /\ pc' = IF i + 1 < Len(validUsers) THEN "loop" ELSE "finish"
  /\ UNCHANGED <<cfg, fn, plan, unprocessedUsers, validUsers, atStart>>
  /\ UNCHANGED <<trackerVars, planVars, cmpVars, runVars, opVars>>

\* lines 109-111: return the statistics
SoftDeleteUsersFinish ==
  /\ fn = "delete" /\ pc = "finish"
  /\ pc' = "returned"
  /\ UNCHANGED <<cfg, fn, plan, unprocessedUsers, validUsers, i, stats, halted,
                 calls, atStart>>
  /\ UNCHANGED <<trackerVars, planVars, cmpVars, runVars, opVars>>

(***************************************************************************)
(* Between invocations                                                     *)
(***************************************************************************)
LocalsDropped ==
  /\ pc' = "idle"
  /\ fn' = "none"
  /\ plan' = <<>>
  /\ unprocessedUsers' = <<>>
  /\ validUsers' = <<>>
  /\ i' = 0
  /\ stats' = NoStats
  /\ halted' = FALSE
  /\ calls' = <<>>
  /\ UNCHANGED cfg

\* the caller has taken the statistics; the process (and the tracker
\* singleton in its memory) lives on
Return ==
  /\ pc = "returned"
  /\ LocalsDropped
  /\ atStart' = Tracker
  /\ UNCHANGED <<trackerVars, planVars, cmpVars, runVars, opVars>>

\* the process ends (crash, kill, restart) inside a phase or between two:
\* memory is lost, the file stays
Terminate ==
  /\ \/ pc \in {"loop", "finish"}
     \/ pc = "idle" /\ progress # ConstructorProgress
  /\ LocalsDropped
  /\ progress' = ConstructorProgress
  /\ atStart' = [progress |-> ConstructorProgress, file |-> file]
  /\ UNCHANGED <<file, planVars, cmpVars, runVars, opVars>>

(***************************************************************************)
(* Specification of the phases                                             *)
(***************************************************************************)
CmpOff ==
  /\ wsUsers = <<>>
  /\ supaUsers = <<>>
  /\ cpc = "off"
  /\ compareStats = <<>>

RunOff ==
  /\ spc = "off"
  /\ sendNotifications = FALSE
  /\ refData = <<>>
  /\ finalStats = <<>>
  /\ runCalls = <<>>
  /\ notified = <<>>

OpsOff ==
  /\ arg = <<>>
  /\ res = <<>>
  /\ rt = <<>>
  /\ inv = <<>>
  /\ lp = <<>>

PhaseIdle ==
  /\ file = <<>>
  /\ progress = ConstructorProgress
  /\ cfg = [dryRun |-> TRUE, continueOnError |-> FALSE]
  /\ fn = "none"
  /\ pc = "idle"
  /\ plan = <<>>
  /\ unprocessedUsers = <<>>
  /\ validUsers = <<>>
  /\ i = 0
  /\ stats = NoStats
  /\ halted = FALSE
  /\ calls = <<>>
  /\ atStart = [progress |-> ConstructorProgress, file |-> <<>>]

Init ==
  /\ PhaseIdle
  /\ CmpOff
  /\ RunOff
  /\ OpsOff
  /\ \E pl \in RunPlans : usersToCreate = pl[1] /\ usersToDelete = pl[2]

Next ==
  \/ \E c \in Cfgs : CreateUsersStart(c)
  \/ \E resp \in Responses : CreateUsersStep(resp)
  \/ CreateUsersFinish
  \/ \E c \in Cfgs : SoftDeleteUsersStart(c)
  \/ \E resp \in UpdateResponses : SoftDeleteUsersStep(resp)
  \/ SoftDeleteUsersFinish
  \/ Return
  \/ Terminate

Spec == Init /\ [][Next]_vars

(***************************************************************************)
(* compareUsers                                                            *)
(* Records keep the fields the comparison reads or reports: the target's   *)
(* team, position and category names, which are only copied into the       *)
(* report, are left out.  null / undefined is the string "null".           *)
(***************************************************************************)
\* String.prototype.toLowerCase on the emails of the model
toLowerCase(e) == IF e = "A@x" THEN "a@x" ELSE IF e = "C@x" THEN "c@x" ELSE e

\* toLowerCase on the titles of the model
titleLower(t) == IF t = "V DEKRETE" THEN "v dekrete" ELSE t

\* lines 9-13: the title, lower-cased, includes one of the two spellings
isMaternityLeave(title) ==
  IF title = "" THEN FALSE
  ELSE LET titleLowerCased == titleLower(title)
       IN titleLowerCased \in {"v dekrete"} \/ titleLowerCased \in {"dektret"}

\* config/department-mapping.js: group label -> tracked unit, or null
mapDepartment(group) ==
  IF group = "G1" THEN "D1" ELSE IF group = "G2" THEN "D2" ELSE "null"

\* config/department-mapping.js: the tracked units
getSupabaseDepartments == <<"D1", "D2">>

\* the keys of stats.by_department: the tracked units and the leave unit
Departments == Range(getSupabaseDepartments) \cup {"Dekret"}

\* `${first_name} ${last_name}` on the names of the model
FullName(first, last) ==
  IF first = "" /\ last = "" THEN " "
  ELSE IF first = "Ann" THEN "Ann Lee" ELSE "Bob Ray"

\* `x || '(нет)'`
OrNone(x) == IF x = "" THEN "(none)" ELSE x

WsUser(email, first, last, group, title) ==
  [email |-> email, first_name |-> first, last_name |-> last,
   group |-> group, title |-> title]

SupaUser(uid, email, first, last, dept) ==
  [user_id |-> uid, email |-> email, first_name |-> first, last_name |-> last,
   department_name |-> dept]

SourceRecords ==
  {WsUser("a@x", "Ann", "Lee", "G1", "engineer"),
   WsUser("A@x", "Ann", "Lee", "G2", ""),
   WsUser("b@x", "Bob", "Ray", "Gx", "engineer"),
   WsUser("b@x", "Bob", "Ray", "Gx", "V DEKRETE"),
   WsUser("c@x", "", "", "G1", "dektret"),
   WsUser("a@x", "Ann", "Lee", "", "engineer")}

TargetRecords ==
  {SupaUser("u1", "a@x", "Ann", "Lee", "D1"),
   SupaUser("u2", "A@x", "Ann", "Lee", "D2"),
   SupaUser("u3", "b@x", "Bob", "Ray", "Dekret"),
   SupaUser("u4", "b@x", "Bob", "Ray", "Udaleny"),
   SupaUser("u5", "C@x", "", "", "null"),
   SupaUser("u6", "c@x", "Bob", "Ray", "D1"),
   SupaUser("u9", "a@x", "Ann", "Lee", "Udaleny")}

\* source snapshots: any records, repeats included
SourceSnapshots == SeqsUpTo(SourceRecords, MaxWs)

\* target snapshots: profile rows, each user_id (the primary key) at most once
TargetSnapshots ==
  {t \in SeqsUpTo(TargetRecords, MaxSupa) :
     \A j, k \in 1..Len(t) : j # k => t[j].user_id # t[k].user_id}

EmptyDepartment ==
  [ws_count |-> 0, supa_count |-> 0, missing_in_supabase |-> <<>>,
   extra_in_supabase |-> <<>>, department_differences |-> <<>>]

\* lines 33-61
EmptyStats(ws, supa) ==
  [ws_total |-> Len(ws), supa_total |-> Len(supa), matched |-> 0,
   missing_in_supabase |-> <<>>, deleted_from_ws |-> <<>>,
   by_department |-> [d \in Departments |-> EmptyDepartment]]

NoIndex == [key \in {} |-> "null"]

\* lines 71-79: Map.set for every user in turn, a later one replacing an
\* earlier one under the same key
RECURSIVE byEmailFrom(_, _, _)
byEmailFrom(users, k, m) ==
  IF k > Len(users) THEN m
  ELSE byEmailFrom(users, k + 1, (toLowerCase(users[k].email) :> users[k]) @@ m)

\* mutant: only the first record is indexed
byEmailFirstOnly(users) ==
  IF users = <<>> THEN NoIndex ELSE (toLowerCase(users[1].email) :> users[1])

byEmail(users) == byEmailFrom(users, 1, NoIndex)

\* mutant: an unmapped group falls into the first tracked unit
expectedDepartmentDefault(wsUser) ==
  IF isMaternityLeave(wsUser.title) THEN "Dekret"
  ELSE IF mapDepartment(wsUser.group) = "null" THEN getSupabaseDepartments[1]
       ELSE mapDepartment(wsUser.group)

\* lines 89-94
expectedDepartment(wsUser) ==
  IF isMaternityLeave(wsUser.title) THEN "Dekret" ELSE mapDepartment(wsUser.group)

MissingEntry(wsUser, dept) ==
  [email |-> wsUser.email, first_name |-> wsUser.first_name,
   last_name |-> wsUser.last_name,
   name |-> FullName(wsUser.first_name, wsUser.last_name),
   department |-> dept, ws_group |-> OrNone(wsUser.group),
   ws_title |-> OrNone(wsUser.title)]

DeptMissingEntry(wsUser) ==
  [email |-> wsUser.email, name |-> FullName(wsUser.first_name, wsUser.last_name),
   ws_title |-> OrNone(wsUser.title)]

DifferenceEntry(wsUser, dept, supaUser) ==
  [email |-> wsUser.email, name |-> FullName(wsUser.first_name, wsUser.last_name),
   ws_expected |-> dept, supa_actual |-> supaUser.department_name,
   ws_title |-> OrNone(wsUser.title)]

DeletedEntry(supaUser) ==
  [user_id |-> supaUser.user_id, email |-> supaUser.email,
   first_name |-> supaUser.first_name, last_name |-> supaUser.last_name,
   name |-> FullName(supaUser.first_name, supaUser.last_name),
   departmentName |-> supaUser.department_name,
   supa_department |-> supaUser.department_name]

ExtraEntry(supaUser) ==
  [email |-> supaUser.email,
   name |-> FullName(supaUser.first_name, supaUser.last_name)]

\* mutant: a record whose unit differs is also listed as missing
RECURSIVE wsLoopMismatchMissing(_, _, _, _)
wsLoopMismatchMissing(ws, supaUsersByEmail, k, st) ==
  IF k > Len(ws) THEN st
  ELSE
    LET wsUser == ws[k]
        email == toLowerCase(wsUser.email)
        dept == expectedDepartment(wsUser)
    IN IF dept = "null" THEN wsLoopMismatchMissing(ws, supaUsersByEmail, k + 1, st)
       ELSE
         LET counted == [st EXCEPT !.by_department[dept].ws_count = @ + 1]
             missing == [counted EXCEPT
                           !.missing_in_supabase = Append(@, MissingEntry(wsUser, dept)),
                           !.by_department[dept].missing_in_supabase =
                              Append(@, DeptMissingEntry(wsUser))]
         IN IF email \notin DOMAIN supaUsersByEmail
            THEN wsLoopMismatchMissing(ws, supaUsersByEmail, k + 1, missing)
            ELSE
              LET supaUser == supaUsersByEmail[email]
              IN wsLoopMismatchMissing(ws, supaUsersByEmail, k + 1,
                   IF supaUser.department_name # dept
                   THEN [missing EXCEPT
                           !.matched = @ + 1,
                           !.by_department[dept].department_differences =
                              Append(@, DifferenceEntry(wsUser, dept, supaUser))]
                   ELSE [counted EXCEPT !.matched = @ + 1])

\* mutant: a source record is counted for its unit only when it is matched
RECURSIVE wsLoopCountMatched(_, _, _, _)
wsLoopCountMatched(ws, supaUsersByEmail, k, st) ==
  IF k > Len(ws) THEN st
  ELSE
    LET wsUser == ws[k]
        email == toLowerCase(wsUser.email)
        dept == expectedDepartment(wsUser)
    IN IF dept = "null" THEN wsLoopCountMatched(ws, supaUsersByEmail, k + 1, st)
       ELSE
         IF email \notin DOMAIN supaUsersByEmail
         THEN wsLoopCountMatched(ws, supaUsersByEmail, k + 1,
                [st EXCEPT
                   !.missing_in_supabase = Append(@, MissingEntry(wsUser, dept)),
                   !.by_department[dept].missing_in_supabase =
                      Append(@, DeptMissingEntry(wsUser))])
         ELSE
           LET supaUser == supaUsersByEmail[email]
               matched == [st EXCEPT !.matched = @ + 1,
                                     !.by_department[dept].ws_count = @ + 1]
           IN wsLoopCountMatched(ws, supaUsersByEmail, k + 1,
                IF supaUser.department_name # dept
                THEN [matched EXCEPT
                        !.by_department[dept].department_differences =
                           Append(@, DifferenceEntry(wsUser, dept, supaUser))]
                ELSE matched)

\* lines 84-136: the loop over the source records
RECURSIVE wsLoop(_, _, _, _)
wsLoop(ws, supaUsersByEmail, k, st) ==
  IF k > Len(ws) THEN st
  ELSE
    LET wsUser == ws[k]
        email == toLowerCase(wsUser.email)
        dept == expectedDepartment(wsUser)
    IN IF dept = "null" THEN wsLoop(ws, supaUsersByEmail, k + 1, st)
       ELSE
         LET counted == [st EXCEPT !.by_department[dept].ws_count = @ + 1]
         IN IF email \notin DOMAIN supaUsersByEmail
            THEN wsLoop(ws, supaUsersByEmail, k + 1,
                   [counted EXCEPT
                      !.missing_in_supabase = Append(@, MissingEntry(wsUser, dept)),
                      !.by_department[dept].missing_in_supabase =
                         Append(@, DeptMissingEntry(wsUser))])
            ELSE
              LET supaUser == supaUsersByEmail[email]
                  matched == [counted EXCEPT !.matched = @ + 1]
              IN wsLoop(ws, supaUsersByEmail, k + 1,
                   IF supaUser.department_name # dept
                   THEN [matched EXCEPT
                           !.by_department[dept].department_differences =
                              Append(@, DifferenceEntry(wsUser, dept, supaUser))]
                   ELSE matched)

\* lines 139-167: the loop over the target records
RECURSIVE supaLoop(_, _, _, _)
supaLoop(supa, wsUsersByEmail, k, st) ==
  IF k > Len(supa) THEN st
  ELSE
    LET supaUser == supa[k]
        email == toLowerCase(supaUser.email)
        dept == supaUser.department_name
    IN IF dept # "null" /\ dept \in DOMAIN st.by_department
       THEN
         LET counted == [st EXCEPT !.by_department[dept].supa_count = @ + 1]
         IN supaLoop(supa, wsUsersByEmail, k + 1,
              IF email \notin DOMAIN wsUsersByEmail
              THEN [counted EXCEPT
                      !.deleted_from_ws = Append(@, DeletedEntry(supaUser)),
                      !.by_department[dept].extra_in_supabase =
                         Append(@, ExtraEntry(supaUser))]
              ELSE counted)
       ELSE supaLoop(supa, wsUsersByEmail, k + 1, st)

\* lines 21-233
compareUsers(ws, supa) ==
  LET supaUsersByEmail == byEmail(supa)
      wsUsersByEmail == byEmail(ws)
      afterWs == wsLoop(ws, supaUsersByEmail, 1, EmptyStats(ws, supa))
  IN supaLoop(supa, wsUsersByEmail, 1, afterWs)

(***************************************************************************)
(* syncUsers: the plan filters                                             *)
(***************************************************************************)
\* mutant: the leave unit is not filtered out of the soft-delete plan
deleteFilterAll(user) == TRUE

\* mutant: the leave unit is not filtered out of the create plan
createFilterAll(user) == TRUE

\* line 650
createFilter(user) == user.department # "Dekret"

\* line 757
deleteFilter(user) == user.departmentName # "Dekret"

\* lines 27-30: both snapshots are fetched
FetchUsers(ws, supa) ==
  /\ cpc = "start"
  /\ wsUsers' = ws
  /\ supaUsers' = supa
  /\ cpc' = "fetched"
  /\ UNCHANGED <<compareStats, trackerVars, phaseVars, planVars, runVars, opVars>>

\* lines 33-233 (sync-manager line 641)
CompareUsers ==
  /\ cpc = "fetched"
  /\ compareStats' = compareUsers(wsUsers, supaUsers)
  /\ cpc' = "compared"
  /\ UNCHANGED <<wsUsers, supaUsers, trackerVars, phaseVars, planVars, runVars, opVars>>

\* sync-manager lines 650 and 757
BuildPlans ==
  /\ cpc = "compared"
  /\ usersToCreate' = SelectSeq(compareStats.missing_in_supabase, createFilter)
  /\ usersToDelete' = SelectSeq(compareStats.deleted_from_ws, deleteFilter)
  /\ cpc' = "planned"
  /\ UNCHANGED <<wsUsers, supaUsers, compareStats, trackerVars, phaseVars, runVars, opVars>>

InitCompare ==
  /\ PhaseIdle
  /\ RunOff
  /\ OpsOff
  /\ wsUsers = <<>>
  /\ supaUsers = <<>>
  /\ cpc = "start"
  /\ compareStats = <<>>
  /\ usersToCreate = <<>>
  /\ usersToDelete = <<>>

NextCompare ==
  \/ /\ cpc = "start"
     /\ \E ws \in SourceSnapshots, supa \in TargetSnapshots : FetchUsers(ws, supa)
  \/ CompareUsers
  \/ BuildPlans

SpecCompare == InitCompare /\ [][NextCompare]_vars

(***************************************************************************)
(* The comparator over the snapshots of one tracked unit: up to three      *)
(* source records of the unit and the target rows that hold them or not    *)
(***************************************************************************)
UnitSourceRecords ==
  {WsUser("a@x", "Ann", "Lee", "G1", "engineer"),
   WsUser("b@x", "Bob", "Ray", "G1", "engineer"),
   WsUser("c@x", "Ann", "Lee", "G1", ""),
   WsUser("b@x", "Bob", "Ray", "Gx", "engineer")}

UnitTargetRecords ==
  {SupaUser("u1", "a@x", "Ann", "Lee", "D1"),
   SupaUser("u2", "b@x", "Bob", "Ray", "D1"),
   SupaUser("u7", "d@x", "Bob", "Ray", "D1"),
   SupaUser("u8", "c@x", "Ann", "Lee", "D2")}

UnitSourceSnapshots == SeqsUpTo(UnitSourceRecords, MaxUnitWs)

UnitTargetSnapshots ==
  {t \in SeqsUpTo(UnitTargetRecords, MaxUnitSupa) :
     \A j, k \in 1..Len(t) : j # k => t[j].user_id # t[k].user_id}

NextUnit ==
  \/ /\ cpc = "start"
     /\ \E ws \in UnitSourceSnapshots, supa \in UnitTargetSnapshots :
          FetchUsers(ws, supa)
  \/ CompareUsers
  \/ BuildPlans

SpecUnit == InitCompare /\ [][NextUnit]_vars

(***************************************************************************)
(* loadReferenceData (sync/sync-helpers.js)                                *)
(* The reference tables are an input: db holds what the queries answer     *)
(* once retry has returned.                                                *)
(***************************************************************************)
DELETED_DEPARTMENT == "Udaleny"

neededDepartments == Range(getSupabaseDepartments) \cup {DELETED_DEPARTMENT}

\* every table in order: the unit rows under the production subdivision, one
\* "<unit> - Obshchaya" team per unit (a team is named by its unit here, and
\* teamOwner is the unit its department_id points to), the default position,
\* category and role
GoodDb ==
  [subdivision |-> "ok",
   departmentsError |-> FALSE,
   departments |-> {[name |-> n, parentOk |-> TRUE] : n \in neededDepartments},
   teamsError |-> FALSE,
   teams |-> neededDepartments,
   teamOwner |-> [n \in neededDepartments |-> n],
   position |-> TRUE, category |-> TRUE, role |-> TRUE]

WithoutDepartment(db, n) ==
  [db EXCEPT !.departments = {d \in @ : d.name # n}]

WrongParent(db, n) ==
  [db EXCEPT !.departments =
     {IF d.name = n THEN [d EXCEPT !.parentOk = FALSE] ELSE d : d \in @}]

RefDbs ==
  {GoodDb,
   WrongParent(GoodDb, DELETED_DEPARTMENT),
   [GoodDb EXCEPT !.subdivision = "none"],
   [GoodDb EXCEPT !.subdivision = "error"],
   [GoodDb EXCEPT !.departmentsError = TRUE],
   WithoutDepartment(GoodDb, "D1"),
   WithoutDepartment(GoodDb, DELETED_DEPARTMENT),
   WrongParent(GoodDb, "D2"),
   [GoodDb EXCEPT !.teamsError = TRUE],
   [GoodDb EXCEPT !.teams = @ \ {"D2"}],
   [GoodDb EXCEPT !.teams = @ \ {DELETED_DEPARTMENT}],
   [GoodDb EXCEPT !.position = FALSE],
   [GoodDb EXCEPT !.category = FALSE],
   [GoodDb EXCEPT !.role = FALSE]}

\* mutant: the checks of the teams and of the defaults are dropped
loadReferenceDataNoTeams(db) ==
  LET names == {d.name : d \in db.departments}
      ok == /\ db.subdivision = "ok"
            /\ ~db.departmentsError
            /\ neededDepartments \subseteq names
  IN [db |-> db, ok |-> ok, error |-> IF ok THEN "null" ELSE "departments"]

\* reference tables with several defects at once, and with teams whose
\* department_id points to another unit
RefDbsWide ==
  {[GoodDb EXCEPT !.departments = {d \in @ : d.name \notin md},
                  !.teams = @ \ mt,
                  !.teamOwner = o,
                  !.position = p, !.category = c, !.role = r] :
     md \in SUBSET neededDepartments, mt \in SUBSET neededDepartments,
     o \in {GoodDb.teamOwner,
            [GoodDb.teamOwner EXCEPT !["D1"] = "D2"],
            [GoodDb.teamOwner EXCEPT ![DELETED_DEPARTMENT] = "D1"]},
     p \in BOOLEAN, c \in BOOLEAN, r \in BOOLEAN}

\* something an error message names
Piece(kind, name) == [kind |-> kind, name |-> name]

\* lines 311-440 with ensureTeamsExist (445-465) and loadDefaultValues
\* (470-530): the first failed check throws, its message naming what that
\* check found; the bundle maps a team name to the team row found under it
loadReferenceData(db) ==
  LET names == {d.name : d \in db.departments}
      wrongSubdivision == {d \in db.departments :
                             d.name # DELETED_DEPARTMENT /\ ~d.parentOk}
      missingDepartments == neededDepartments \ names
      teams == {n \in db.teams : db.teamOwner[n] \in names}
      missingTeams == Range(getSupabaseDepartments) \ teams
      thrown ==
        IF db.subdivision # "ok" THEN "subdivision"
        ELSE IF db.departmentsError THEN "departments_error"
        ELSE IF wrongSubdivision # {} THEN "wrong_subdivision"
        ELSE IF missingDepartments # {} THEN "missing_departments"
        ELSE IF db.teamsError THEN "teams_error"
        ELSE IF missingTeams # {} THEN "missing_teams"
        ELSE IF DELETED_DEPARTMENT \notin teams THEN "missing_deleted_team"
        ELSE IF ~db.position THEN "position"
        ELSE IF ~db.category THEN "category"
        ELSE IF ~db.role THEN "role"
        ELSE "null"
      named ==
        IF thrown = "subdivision" THEN {Piece("subdivision", "production")}
        ELSE IF thrown = "wrong_subdivision"
             THEN {Piece("unit", d.name) : d \in wrongSubdivision}
        ELSE IF thrown = "missing_departments"
             THEN {Piece("unit", n) : n \in missingDepartments}
        ELSE IF thrown = "missing_teams" THEN {Piece("team", n) : n \in missingTeams}
        ELSE IF thrown = "missing_deleted_team"
             THEN {Piece("team", DELETED_DEPARTMENT)}
        ELSE IF thrown \in {"position", "category", "role"}
             THEN {Piece("default", thrown)}
        ELSE {}
  IN [db |-> db, ok |-> thrown = "null", error |-> thrown, named |-> named,
      departmentMap |-> names,
      teamMap |-> [n \in teams |-> db.teamOwner[n]]]

(***************************************************************************)
(* syncUsers (sync/sync-manager.js): one run                               *)
(* The Telegram messages and the lists kept only for them are left out;    *)
(* the reads that frame a notified run (getDbCounts) can throw.            *)
(***************************************************************************)
RunSourceRecords ==
  {WsUser("a@x", "Ann", "Lee", "G1", "engineer"),
   WsUser("b@x", "Bob", "Ray", "G2", "engineer"),
   WsUser("c@x", "", "", "G1", "")}

RunTargetRecords ==
  {SupaUser("u1", "a@x", "Ann", "Lee", "D2"),
   SupaUser("u3", "b@x", "Bob", "Ray", "Dekret"),
   SupaUser("u7", "d@x", "Bob", "Ray", "D1")}

RunSourceSnapshots == SeqsUpTo(RunSourceRecords, MaxRunWs)

RunTargetSnapshots ==
  {t \in SeqsUpTo(RunTargetRecords, MaxRunSupa) :
     \A j, k \in 1..Len(t) : j # k => t[j].user_id # t[k].user_id}

\* lines 605-624
NoFinalStats ==
  [created |-> 0, deleted |-> 0, updated |-> 0, unchanged |-> 0, errors |-> 0,
   errorDetails |-> <<>>, deletedUsers |-> <<>>]

\* mutant: the count of the phase replaces the counter
phaseErrorsLast(errors, result) == result.errors

\* lines 660 and 767: finalStats.users.errors += result.errors
phaseErrors(errors, result) == errors + result.errors

\* lines 771-781: the report list of the soft-delete step
deletedUsersOf(users) == [k \in 1..Len(users) |-> users[k].email]

\* lines 702-706: the loop over the units
RECURSIVE sumDifferences(_, _)
sumDifferences(byDepartment, ds) ==
  IF ds = {} THEN 0
  ELSE LET d == CHOOSE x \in ds : TRUE
       IN Len(byDepartment[d].department_differences)
            + sumDifferences(byDepartment, ds \ {d})

totalDifferences(cs) == sumDifferences(cs.by_department, DOMAIN cs.by_department)

\* services/telegram.js: what the Telegram API answers for each chat of a
\* notifier call (chatId, and chatId2 when configured)
TelegramAnswers == {<<"ok">>, <<"fail">>, <<"ok", "fail">>}

Failed(answers) == \E k \in 1..Len(answers) : answers[k] = "fail"

\* mutant: a failed post is not caught
sendMessageNoCatch(answers) == [threw |-> Failed(answers), failed |-> Failed(answers)]

\* sendMessage: each post is sent in a try of its own
sendMessage(answers) == [threw |-> FALSE, failed |-> Failed(answers)]

sendSyncStarted(answers) == sendMessage(answers)

sendError(answers) == sendMessage(answers)

\* sendCsvFile: a try around the whole function and one around each post
sendCsvFile(answers) == [threw |-> FALSE, failed |-> Failed(answers)]

Notified(kind, r) == [kind |-> kind, failed |-> r.failed]

\* lines 820-833: the catch of syncUsers; sent is what the try had notified
Caught(sent, tg) ==
  /\ finalStats' = [finalStats EXCEPT !.errors = @ + 1]
  /\ IF sendNotifications
     THEN /\ notified' = sent \o <<Notified("error", sendError(tg))>>
          /\ spc' = IF sendError(tg).threw THEN "rejected" ELSE "caught"
     ELSE /\ notified' = sent
          /\ spc' = "caught"

\* lines 626-637: the reads and the start notification of a notified run,
\* then loadReferenceData
SyncStart(counts, db, tg, tgc) ==
  /\ spc = "start"
  /\ IF sendNotifications /\ counts = "throw"
     THEN /\ Caught(notified, tgc)
          /\ UNCHANGED refData
     ELSE LET started == IF sendNotifications
                         THEN <<Notified("started", sendSyncStarted(tg))>>
                         ELSE <<>>
              r == loadReferenceData(db)
          IN IF sendNotifications /\ sendSyncStarted(tg).threw
             THEN /\ Caught(notified \o started, tgc)
                  /\ UNCHANGED refData
             ELSE /\ refData' = <<r>>
                  /\ IF r.ok
                     THEN /\ spc' = "compare"
                          /\ notified' = notified \o started
                          /\ UNCHANGED finalStats
                     ELSE Caught(notified \o started, tgc)
  /\ UNCHANGED <<sendNotifications, runCalls>>
  /\ UNCHANGED <<trackerVars, phaseVars, planVars, cmpVars, opVars>>

\* line 641 and compareUsers lines 24-30, 235-239: a failed fetch ends the
\* process; lines 644-650: the create plan
SyncCompare(ws, supa, fetch) ==
  /\ spc = "compare"
  /\ IF fetch = "throw"
     THEN /\ spc' = "exited"
          /\ UNCHANGED <<wsUsers, supaUsers, compareStats, usersToCreate>>
     ELSE /\ wsUsers' = ws
          /\ supaUsers' = supa
          /\ compareStats' = compareUsers(ws, supa)
          /\ usersToCreate' = SelectSeq(compareUsers(ws, supa).missing_in_supabase,
                                        createFilter)
          /\ spc' = "create"
  /\ UNCHANGED <<cpc, usersToDelete, sendNotifications, refData, finalStats, runCalls,
                 notified>>
  /\ UNCHANGED <<trackerVars, phaseVars, opVars>>

\* line 658: createUsers is invoked
SyncCreateUsers ==
  /\ spc = "create"
  /\ CreateUsersStart(cfg)

\* lines 699-757: the differences are counted and logged, the soft-delete
\* plan is filtered
CheckDifferences ==
  /\ finalStats' = [finalStats EXCEPT
                      !.created = IF fn = "create" THEN stats.created ELSE @,
                      !.errors = IF fn = "create" THEN phaseErrors(@, stats) ELSE @,
                      !.updated = totalDifferences(compareStats)]
  /\ usersToDelete' = SelectSeq(compareStats.deleted_from_ws, deleteFilter)
  /\ spc' = "delete"

\* lines 659-661 and 699-757: createUsers has returned
SyncAfterCreate ==
  /\ spc = "create"
  /\ fn = "create" /\ pc = "returned"
  /\ CheckDifferences
  /\ runCalls' = runCalls \o calls
  /\ LocalsDropped
  /\ atStart' = Tracker
  /\ UNCHANGED <<usersToCreate, sendNotifications, refData, notified>>
  /\ UNCHANGED <<trackerVars, cmpVars, opVars>>

\* lines 695-757: nothing to create
SyncNoCreate ==
  /\ spc = "create"
  /\ pc = "idle" /\ usersToCreate = <<>>
  /\ CheckDifferences
  /\ UNCHANGED <<usersToCreate, sendNotifications, refData, runCalls, notified>>
  /\ UNCHANGED <<trackerVars, phaseVars, cmpVars, opVars>>

\* line 765: softDeleteUsers is invoked
SyncSoftDeleteUsers ==
  /\ spc = "delete"
  /\ SoftDeleteUsersStart(cfg)

\* lines 766-818: the counts and the report list of the soft-delete step,
\* unchanged is computed, the counts of a notified run are read again,
\* finalStats is returned
Finish(counts, tg) ==
  LET final == [finalStats EXCEPT
                  !.deleted = IF fn = "delete" THEN stats.deleted ELSE @,
                  !.errors = IF fn = "delete" THEN phaseErrors(@, stats) ELSE @,
                  !.deletedUsers = IF fn = "delete" THEN deletedUsersOf(usersToDelete)
                                   ELSE @,
                  !.unchanged = compareStats.matched - totalDifferences(compareStats)]
      thrown == sendNotifications /\ (counts = "throw" \/ sendCsvFile(tg).threw)
      report == IF sendNotifications /\ counts # "throw"
                THEN <<Notified("report", sendCsvFile(tg))>>
                ELSE <<>>
  IN IF thrown
     THEN /\ finalStats' = [final EXCEPT !.errors = @ + 1]
          /\ notified' = notified \o report \o <<Notified("error", sendError(tg))>>
          /\ spc' = IF sendError(tg).threw THEN "rejected" ELSE "caught"
     ELSE /\ finalStats' = final
          /\ notified' = notified \o report
          /\ spc' = "returned"

\* lines 766-768 and 786-818: softDeleteUsers has returned
SyncAfterDelete(counts, tg) ==
  /\ spc = "delete"
  /\ fn = "delete" /\ pc = "returned"
  /\ Finish(counts, tg)
  /\ runCalls' = runCalls \o calls
  /\ LocalsDropped
  /\ atStart' = Tracker
  /\ UNCHANGED <<sendNotifications, refData>>
  /\ UNCHANGED <<trackerVars, planVars, cmpVars, opVars>>

\* lines 782-818: nothing to soft-delete
SyncNoDelete(counts, tg) ==
  /\ spc = "delete"
  /\ pc = "idle" /\ usersToDelete = <<>>
  /\ Finish(counts, tg)
  /\ UNCHANGED <<sendNotifications, refData, runCalls>>
  /\ UNCHANGED <<trackerVars, phaseVars, planVars, cmpVars, opVars>>

InitRun ==
  /\ file = <<>>
  /\ progress = ConstructorProgress
  /\ cfg \in Cfgs
  /\ fn = "none"
  /\ pc = "idle"
  /\ plan = <<>>
  /\ unprocessedUsers = <<>>
  /\ validUsers = <<>>
  /\ i = 0
  /\ stats = NoStats
  /\ halted = FALSE
  /\ calls = <<>>
  /\ atStart = [progress |-> ConstructorProgress, file |-> <<>>]
  /\ CmpOff
  /\ usersToCreate = <<>>
  /\ usersToDelete = <<>>
  /\ spc = "start"
  /\ sendNotifications \in BOOLEAN
  /\ refData = <<>>
  /\ finalStats = NoFinalStats
  /\ runCalls = <<>>
  /\ notified = <<>>
  /\ OpsOff

NextRun ==
  \/ /\ spc = "start"
     /\ \E counts \in {"ok", "throw"}, db \in RefDbs, tg, tgc \in TelegramAnswers :
          SyncStart(counts, db, tg, tgc)
  \/ /\ spc = "compare"
     /\ \E ws \in RunSourceSnapshots, supa \in RunTargetSnapshots,
           fetch \in {"ok", "throw"} : SyncCompare(ws, supa, fetch)
  \/ SyncCreateUsers
  \/ \E resp \in Responses : CreateUsersStep(resp)
  \/ CreateUsersFinish
  \/ SyncAfterCreate
  \/ SyncNoCreate
  \/ SyncSoftDeleteUsers
  \/ \E resp \in UpdateResponses : SoftDeleteUsersStep(resp)
  \/ SoftDeleteUsersFinish
  \/ \E counts \in {"ok", "throw"}, tg \in TelegramAnswers : SyncAfterDelete(counts, tg)
  \/ \E counts \in {"ok", "throw"}, tg \in TelegramAnswers : SyncNoDelete(counts, tg)

SpecRun == InitRun /\ [][NextRun]_vars

(***************************************************************************)
(* A single remote operation against a target store                        *)
(* createUser and softDeleteUser are applied to drawn arguments and remote *)
(* answers; the store holds the identities (auth.users, by email) and the  *)
(* profile rows.                                                           *)
(***************************************************************************)
\* what .update(set).eq('user_id', eq) does to the rows when it is accepted
profilesUpdate(rows, upd) ==
  {IF r.user_id = upd.eq
   THEN [f \in DOMAIN r |-> IF f \in DOMAIN upd.set THEN upd.set[f] ELSE r[f]]
   ELSE r : r \in rows}

\* what the accepted auth.admin calls of a sequence do to the identities
RECURSIVE authApply(_, _, _)
authApply(auth, cs, resp) ==
  IF cs = <<>> THEN auth
  ELSE LET c == Head(cs)
           next == IF c.op = "auth.createUser" /\ resp.auth = "ok"
                   THEN auth \cup {c.key}
                   ELSE IF c.op = "auth.deleteUser" /\ resp.delete = "ok"
                        THEN auth \ {c.key}
                        ELSE auth
       IN authApply(next, Tail(cs), resp)

ProfileRow(uid, email, dept, team, position) ==
  [user_id |-> uid, email |-> email, department_id |-> dept, team_id |-> team,
   position_id |-> position]

ProfileRows ==
  {ProfileRow("u1", "a@x", "dep:D1", "team:D1", "pos:1"),
   ProfileRow("u2", "b@x", "dep:D2", "team:D2", "pos:2"),
   ProfileRow("u3", "c@x", "dep:Udaleny", "team:Udaleny", "pos:1")}

\* arguments of createUser: the email, the answers, the identities before;
\* auth.admin.createUser refuses an email that is already registered
CreateUserArgs ==
  {a \in [fn : {"createUser"}, email : {"a@x", "b@x"}, resp : Responses,
          auth : SUBSET {"a@x", "c@x"}] :
     a.email \in a.auth => a.resp.auth = "error"}

\* arguments of softDeleteUser: the plan item, the answer, the rows before
SoftDeleteUserArgs ==
  [fn : {"softDeleteUser"}, user : DeleteItems \cup {Profile("u9", "z@x", "D1")},
   resp : UpdateResponses, rows : SUBSET ProfileRows]

\* arguments of loadReferenceData: the reference tables
LoadReferenceDataArgs == [fn : {"loadReferenceData"}, db : RefDbs \cup RefDbsWide]

ApplyLoadReferenceData ==
  /\ res = <<>>
  /\ arg.fn = "loadReferenceData"
  /\ res' = <<loadReferenceData(arg.db)>>
  /\ UNCHANGED <<arg, rt, inv, lp, trackerVars, phaseVars, planVars, cmpVars, runVars>>

ApplyCreateUser ==
  /\ res = <<>>
  /\ arg.fn = "createUser"
  /\ LET r == createUser(arg.email, arg.resp)
     IN res' = <<[result |-> [success |-> r.success, userId |-> r.userId,
                              error |-> r.error],
                  calls |-> r.calls,
                  exists |-> r.exists,
                  auth |-> authApply(arg.auth, r.calls, arg.resp),
                  stats |-> recordResult(NoStats, User(arg.email, "Ann Lee", "D1"),
                                         r.success)]>>
  /\ UNCHANGED <<arg, rt, inv, lp, trackerVars, phaseVars, planVars, cmpVars, runVars>>

ApplySoftDeleteUser ==
  /\ res = <<>>
  /\ arg.fn = "softDeleteUser"
  /\ LET r == softDeleteUser(arg.user, arg.resp)
     IN res' = <<[result |-> [success |-> r.success, error |-> r.error],
                  calls |-> r.calls,
                  update |-> r.update,
                  rows |-> IF arg.resp = "ok"
                           THEN profilesUpdate(arg.rows, r.update)
                           ELSE arg.rows]>>
  /\ UNCHANGED <<arg, rt, inv, lp, trackerVars, phaseVars, planVars, cmpVars, runVars>>

InitOps ==
  /\ PhaseIdle
  /\ CmpOff
  /\ RunOff
  /\ usersToCreate = <<>>
  /\ usersToDelete = <<>>
  /\ arg \in CreateUserArgs \cup SoftDeleteUserArgs \cup LoadReferenceDataArgs
  /\ res = <<>>
  /\ rt = <<>>
  /\ inv = <<>>
  /\ lp = <<>>

NextOps ==
  \/ ApplyCreateUser
  \/ ApplySoftDeleteUser
  \/ ApplyLoadReferenceData

SpecOps == InitOps /\ [][NextOps]_vars

(***************************************************************************)
(* retry (utils/retry.js): one call of retry(fn, options)                  *)
(* The thunk's answers are the inputs: answers[k] is what its k-th         *)
(* invocation does.  A returned value and a thrown error carry the number  *)
(* of the invocation they come from, so that two of them are never         *)
(* confused.  A numeric option is <<>> when left out and <<n>> when given;  *)
(* undefined is the value of a variable never assigned.                    *)
(***************************************************************************)
\* lines 15-20: the defaults of the destructuring
destructure(options) ==
  [maxRetries |-> IF options.maxRetries = <<>> THEN 3 ELSE options.maxRetries[1],
   baseDelay |-> IF options.baseDelay = <<>> THEN 1000 ELSE options.baseDelay[1],
   maxDelay |-> IF options.maxDelay = <<>> THEN 10000 ELSE options.maxDelay[1],
   operationName |-> IF options.operationName = "undefined" THEN "operation"
                     ELSE options.operationName]

RetryOptions ==
  [maxRetries : {<<>>} \cup {<<n>> : n \in 0..MaxAttempts},
   baseDelay : {<<>>, <<3000>>},
   maxDelay : {<<>>, <<5000>>},
   operationName : {"undefined", "profiles.update"}]

ThunkAnswers == {"return", "TypeError", "NetworkError"}

\* the answers with which the promise of the thunk resolves: a value, or the
\* { data: null, error } of a query that the client reports without throwing
Resolved == {"return", "error"}

Min(a, b) == IF a <= b THEN a ELSE b

\* mutant: the wait is not capped
backoffUncapped(baseDelay, maxDelay, attempt) == baseDelay * 2^(attempt - 1)

\* line 37: the wait after the failed attempt
backoff(baseDelay, maxDelay, attempt) == Min(baseDelay * 2^(attempt - 1), maxDelay)

\* mutant: the attempt before the last one already gives up
lastAttemptEarly(attempt, maxRetries) == attempt >= maxRetries - 1

\* line 30
lastAttempt(attempt, maxRetries) == attempt = maxRetries

\* mutant: the error that is passed on is that of the attempt before
rethrownPrevious(error, r) == IF r.lastError.at = 0 THEN error ELSE r.lastError

\* line 32: throw error
rethrown(error, r) == error

\* what the k-th invocation of the thunk throws
ErrorOf(type, k) == [message |-> type, at |-> k]

\* the value of lastError, result and thrown before they are assigned
undefined == [message |-> "undefined", at |-> 0]

\* lines 24-43: one pass through the loop body
RetryAttempt ==
  /\ rt.rpc = "try"
  /\ rt.attempt <= rt.opt.maxRetries
  /\ LET k == Len(rt.invoked) + 1
         answer == IF k <= Len(rt.answers) THEN rt.answers[k] ELSE "NetworkError"
         called == [rt EXCEPT !.invoked = Append(@, rt.attempt)]
         error == ErrorOf(answer, k)
         caught == [called EXCEPT !.lastError = error]
     IN rt' = IF answer \in Resolved
              THEN [called EXCEPT !.rpc = "returned",
                                  !.result = [message |-> IF answer = "return"
                                                          THEN "value" ELSE answer,
                                              at |-> k]]
              ELSE IF lastAttempt(rt.attempt, rt.opt.maxRetries)
                   THEN [caught EXCEPT
                           !.rpc = "thrown",
                           !.thrown = rethrown(error, rt),
                           !.log = Append(@, [level |-> "error",
                                              operation |-> rt.opt.operationName,
                                              attempts |-> rt.opt.maxRetries,
                                              message |-> error.message])]
                   ELSE [caught EXCEPT
                           !.rpc = "wait",
                           !.waits = Append(@, [after |-> rt.attempt,
                                                ms |-> backoff(rt.opt.baseDelay,
                                                               rt.opt.maxDelay,
                                                               rt.attempt)]),
                           !.log = Append(@, [level |-> "warning",
                                              operation |-> rt.opt.operationName,
                                              attempts |-> rt.attempt,
                                              message |-> error.message])]
  /\ UNCHANGED <<arg, res, inv, lp, trackerVars, phaseVars, planVars, cmpVars, runVars>>

\* line 42 and the loop header: the wait is over, the next attempt begins
RetryWake ==
  /\ rt.rpc = "wait"
  /\ rt' = [rt EXCEPT !.attempt = @ + 1, !.rpc = "try"]
  /\ UNCHANGED <<arg, res, inv, lp, trackerVars, phaseVars, planVars, cmpVars, runVars>>

\* line 46: the loop was left by its condition
RetryLoopExit ==
  /\ rt.rpc = "try"
  /\ rt.attempt > rt.opt.maxRetries
  /\ rt' = [rt EXCEPT !.rpc = "thrown", !.thrown = rt.lastError]
  /\ UNCHANGED <<arg, res, inv, lp, trackerVars, phaseVars, planVars, cmpVars, runVars>>

\* lines 14-24: retry is called
RetryCall(options, answers) ==
  [options |-> options,
   opt |-> destructure(options),
   answers |-> answers,
   attempt |-> 1,
   invoked |-> <<>>,
   waits |-> <<>>,
   log |-> <<>>,
   lastError |-> undefined,
   rpc |-> "try",
   result |-> undefined,
   thrown |-> undefined]

InitRetry ==
  /\ PhaseIdle
  /\ CmpOff
  /\ RunOff
  /\ usersToCreate = <<>>
  /\ usersToDelete = <<>>
  /\ arg = <<>>
  /\ res = <<>>
  /\ inv = <<>>
  /\ lp = <<>>
  /\ \E options \in RetryOptions :
       \E answers \in [1..destructure(options).maxRetries -> ThunkAnswers] :
         rt = RetryCall(options, answers)

NextRetry ==
  \/ RetryAttempt
  \/ RetryWake
  \/ RetryLoopExit

SpecRetry == InitRetry /\ [][NextRetry]_vars

(***************************************************************************)
(* A reference read of loadReferenceData                                   *)
(* const { data, error } = await retry(() => supabase.from(..)..., {       *)
(* maxRetries: 3, operationName }), then the test of error and data.  With *)
(* maxRetries 3 the loop of retry is always left by return or throw.       *)
(***************************************************************************)
ReadOptions ==
  [maxRetries : {<<3>>}, baseDelay : {<<>>}, maxDelay : {<<>>},
   operationName : {"Load subdivision", "Load default role"}]

\* what the query does each time the thunk is invoked
ReadAnswers == {"return", "error", "NetworkError"}

\* compare-users.js lines 341-343 (and 363, 412, 484, 504, 524): the result
\* of retry is tested, an error thrown by retry passes through
ReadChecked ==
  /\ rt.rpc \in {"returned", "thrown"}
  /\ rt' = [rt EXCEPT !.rpc = IF rt.rpc = "returned" /\ rt.result.message = "value"
                                THEN "loaded" ELSE "aborted"]
  /\ UNCHANGED <<arg, res, inv, lp, trackerVars, phaseVars, planVars, cmpVars, runVars>>

InitRead ==
  /\ PhaseIdle
  /\ CmpOff
  /\ RunOff
  /\ usersToCreate = <<>>
  /\ usersToDelete = <<>>
  /\ arg = <<>>
  /\ res = <<>>
  /\ inv = <<>>
  /\ lp = <<>>
  /\ \E options \in ReadOptions :
       \E answers \in [1..destructure(options).maxRetries -> ReadAnswers] :
         rt = RetryCall(options, answers)

NextRead ==
  \/ RetryAttempt
  \/ RetryWake
  \/ ReadChecked

SpecRead == InitRead /\ [][NextRead]_vars

(***************************************************************************)
(* The create phase over a long plan, with the write of the ledger as a    *)
(* step of its own                                                         *)
(* addProcessed pushes the key in memory and then awaits save(), which     *)
(* awaits fs.writeFile: the process can end while the write is pending.    *)
(* A write that was cut short leaves the old content, the new content, or  *)
(* a file that load() cannot parse and treats like an absent one.          *)
(***************************************************************************)
LedgerPlan == [k \in 1..MaxLedger |-> User(LedgerEmails[k], "Ann Lee", "D1")]

LedgerCfgs == {c \in Cfgs : ~c.dryRun}

\* the remote answers of the long plan: accepted, or the identity refused
LedgerResponses ==
  {r \in Responses : r.profile = "ok" /\ r.role = "ok" /\ r.delete = "ok"}

\* lines 241-281 up to the await of save(): createUser, the statistics, the
\* push of addProcessed
LedgerStep(resp) ==
  /\ fn = "create" /\ pc = "loop"
  /\ LET user == validUsers[i + 1]
         r == createUser(user.email, resp)
         t1 == push(Tracker, user.email, r.success)
         stop == ~r.success /\ createBreak(cfg)
     IN /\ calls' = calls \o r.calls
        /\ stats' = recordResult(stats, user, r.success)
        /\ progress' = t1.progress
        /\ halted' = stop
        /\ i' = IF stop THEN i ELSE i + 1
        /\ pc' = IF saveDue(t1) \/ stop
                 THEN "saving"
                 ELSE IF i + 1 < Len(validUsers) THEN "loop" ELSE "finish"
  /\ UNCHANGED <<file, cfg, fn, plan, unprocessedUsers, validUsers, atStart>>
  /\ UNCHANGED <<planVars, cmpVars, runVars, opVars>>

\* part_001 lines 67-75: the write has completed
LedgerSaved ==
  /\ fn = "create" /\ pc = "saving"
  /\ file' = save(Tracker).file
  /\ pc' = IF halted THEN "finish"
           ELSE IF i < Len(validUsers) THEN "loop" ELSE "finish"
  /\ UNCHANGED <<progress, cfg, fn, plan, unprocessedUsers, validUsers, i, stats,
                 halted, calls, atStart>>
  /\ UNCHANGED <<planVars, cmpVars, runVars, opVars>>

\* the process ends inside the phase; a pending write is cut short
LedgerTerminate ==
  /\ pc \in {"loop", "saving", "finish"}
  /\ LocalsDropped
  /\ progress' = ConstructorProgress
  /\ file' \in IF pc = "saving" THEN {file, save(Tracker).file, <<>>} ELSE {file}
  /\ atStart' = [progress |-> ConstructorProgress, file |-> file']
  /\ UNCHANGED <<planVars, cmpVars, runVars, opVars>>

InitLedger ==
  /\ PhaseIdle
  /\ CmpOff
  /\ RunOff
  /\ OpsOff
  /\ usersToCreate = LedgerPlan
  /\ usersToDelete = <<>>

NextLedger ==
  \/ \E c \in LedgerCfgs : CreateUsersStart(c)
  \/ \E resp \in LedgerResponses : LedgerStep(resp)
  \/ LedgerSaved
  \/ CreateUsersFinish
  \/ Return
  \/ LedgerTerminate

SpecLedger == InitLedger /\ [][NextLedger]_vars

(***************************************************************************)
(* Two invocations of syncUsers in one process                             *)
(* The cron task (scheduler.js runScheduledSync) and the /start_sync       *)
(* command (telegram-bot.js handleStartSync) both call syncUsers in the    *)
(* process of app.js; neither tests whether a run is in progress.  Each    *)
(* invocation of createUsers has its own locals; progressTracker is the    *)
(* singleton of the module.  An invocation runs until its next await.      *)
(***************************************************************************)
Invocations == {"cron", "bot"}

IdleInvocation == [pc |-> "idle", validUsers |-> <<>>, i |-> 0, calls |-> <<>>]

\* user-create.js lines 171-239 in invocation r
TwoStart(r) ==
  /\ inv[r].pc = "idle"
  /\ LET t0 == Tracker
         t1 == IF hasProgress(t0) THEN load(t0) ELSE init(t0, "create")
         unp == filterUnprocessed(t1, usersToCreate)
         isValid(u) == validateUser(u).valid
         valid == SelectSeq(unp, isValid)
         t2 == IF Len(unp) = 0 THEN clear(t1) ELSE t1
     IN /\ progress' = t2.progress
        /\ file' = t2.file
        /\ inv' = [inv EXCEPT ![r] =
                     [pc |-> IF Len(valid) = 0 \/ createDryRun(cfg)
                             THEN "returned" ELSE "loop",
                      validUsers |-> valid, i |-> 0, calls |-> <<>>]]
  /\ UNCHANGED <<arg, res, rt, lp, phaseVars, planVars, cmpVars, runVars>>

\* lines 241-288 in invocation r
TwoStep(r, resp) ==
  /\ inv[r].pc = "loop"
  /\ LET user == inv[r].validUsers[inv[r].i + 1]
         c == createUser(user.email, resp)
         t1 == addProcessed(Tracker, user.email, c.success)
         stop == ~c.success /\ createBreak(cfg)
         t2 == IF stop THEN save(t1) ELSE t1
     IN /\ progress' = t2.progress
        /\ file' = t2.file
        /\ inv' = [inv EXCEPT ![r] =
                     [@ EXCEPT !.calls = @ \o c.calls,
                               !.i = IF stop THEN @ ELSE @ + 1,
                               !.pc = IF stop \/ inv[r].i + 1 >= Len(inv[r].validUsers)
                                      THEN "finish" ELSE "loop"]]
  /\ UNCHANGED <<arg, res, rt, lp, phaseVars, planVars, cmpVars, runVars>>

\* lines 290-295 in invocation r
TwoFinish(r) ==
  /\ inv[r].pc = "finish"
  /\ progress' = clear(Tracker).progress
  /\ file' = clear(Tracker).file
  /\ inv' = [inv EXCEPT ![r] = [@ EXCEPT !.pc = "returned"]]
  /\ UNCHANGED <<arg, res, rt, lp, phaseVars, planVars, cmpVars, runVars>>

InitTwo ==
  /\ file = <<>>
  /\ progress = ConstructorProgress
  /\ cfg \in Cfgs
  /\ fn = "none"
  /\ pc = "idle"
  /\ plan = <<>>
  /\ unprocessedUsers = <<>>
  /\ validUsers = <<>>
  /\ i = 0
  /\ stats = NoStats
  /\ halted = FALSE
  /\ calls = <<>>
  /\ atStart = [progress |-> ConstructorProgress, file |-> <<>>]
  /\ CmpOff
  /\ RunOff
  /\ arg = <<>>
  /\ res = <<>>
  /\ rt = <<>>
  /\ lp = <<>>
  /\ inv = [r \in Invocations |-> IdleInvocation]
  /\ usersToCreate \in SeqsUpTo(CreateItems, MaxShared) \ {<<>>}
  /\ usersToDelete = <<>>

NextTwo ==
  \/ \E r \in Invocations : TwoStart(r)
  \/ \E r \in Invocations, resp \in Responses : TwoStep(r, resp)
  \/ \E r \in Invocations : TwoFinish(r)

SpecTwo == InitTwo /\ [][NextTwo]_vars

(***************************************************************************)
(* The loop of a phase from await to await                                 *)
(* createUsers and softDeleteUsers are async functions: the loop body runs *)
(* until an await, and goes on when the awaited promise has settled.  An   *)
(* item is in flight from the call of createUser / softDeleteUser until    *)
(* that promise settles.  done lists what the loop did, in order.          *)
(***************************************************************************)
BatchSizes == {1, 2, 3}

PacedPhases == {"create", "delete"}

Did(what, item) == [what |-> what, item |-> item]

\* mutant: the loop body goes on without the result of the call
awaitedNever(l) == TRUE

\* user-create.js line 246, user-delete.js line 78: await of the call
awaited(l) == l.i \notin l.inflight

\* user-create.js line 284, user-delete.js line 103, k being the index i
pauseDue(k, length, batchSize) == k < length - 1 /\ k % batchSize = 0

\* lines 241-246 (73-78): the loop header and the call for item i
PaceCall ==
  /\ lp.at = "call"
  /\ lp.i < lp.length
  /\ lp' = [lp EXCEPT !.inflight = @ \cup {lp.i},
                      !.done = Append(@, Did("call", lp.i)),
                      !.at = "await"]
  /\ UNCHANGED <<arg, res, rt, inv, trackerVars, phaseVars, planVars, cmpVars, runVars>>

\* the promise of the call settles: createUser and softDeleteUser catch
\* what their remote calls throw and return { success }
PaceSettle(success) ==
  /\ lp.inflight # {}
  /\ \E k \in lp.inflight :
       lp' = [lp EXCEPT !.inflight = @ \ {k},
                        !.results = Append(@, success),
                        !.done = Append(@, Did("settled", k))]
  /\ UNCHANGED <<arg, res, rt, inv, trackerVars, phaseVars, planVars, cmpVars, runVars>>

\* lines 256-288 (80-107): the statistics, the ledger entry of the create
\* phase, the break, the test of the pause, i++
PaceRecord ==
  /\ lp.at = "await"
  /\ awaited(lp)
  /\ LET success == IF Len(lp.results) > lp.i THEN lp.results[lp.i + 1] ELSE FALSE
         stop == ~success /\ ~lp.continueOnError
         booked == lp.done \o <<Did("stats", lp.i)>>
                     \o (IF lp.phase = "create" THEN <<Did("ledger", lp.i)>> ELSE <<>>)
     IN lp' = IF stop
              THEN [lp EXCEPT !.done = booked, !.at = "done"]
              ELSE IF pauseDue(lp.i, lp.length, lp.batchSize)
                   THEN [lp EXCEPT !.done = Append(booked, Did("pause", lp.i)),
                                   !.at = "pause"]
                   ELSE [lp EXCEPT !.done = booked,
                                   !.i = @ + 1,
                                   !.at = IF lp.i + 1 < lp.length THEN "call" ELSE "done"]
  /\ UNCHANGED <<arg, res, rt, inv, trackerVars, phaseVars, planVars, cmpVars, runVars>>

\* lines 286 (105): the timer of the pause has fired
PaceWake ==
  /\ lp.at = "pause"
  /\ lp' = [lp EXCEPT !.i = @ + 1,
                      !.at = IF lp.i + 1 < lp.length THEN "call" ELSE "done"]
  /\ UNCHANGED <<arg, res, rt, inv, trackerVars, phaseVars, planVars, cmpVars, runVars>>

InitPace ==
  /\ PhaseIdle
  /\ CmpOff
  /\ RunOff
  /\ usersToCreate = <<>>
  /\ usersToDelete = <<>>
  /\ arg = <<>>
  /\ res = <<>>
  /\ rt = <<>>
  /\ inv = <<>>
  /\ lp \in [phase : PacedPhases, length : 1..MaxPaced, batchSize : BatchSizes,
             continueOnError : BOOLEAN, i : {0}, at : {"call"}, inflight : {{}},
             results : {<<>>}, done : {<<>>}]

NextPace ==
  \/ PaceCall
  \/ \E success \in BOOLEAN : PaceSettle(success)
  \/ PaceRecord
  \/ PaceWake

SpecPace == InitPace /\ [][NextPace]_vars

(***************************************************************************)
(* Properties of the phases                                                *)
(***************************************************************************)
\* the ledger that load() found when the phase was invoked
LedgerAtStart ==
  IF atStart.file = <<>> THEN <<>> ELSE atStart.file[1].processedEmails

CreateCalls(e) ==
  Cardinality({k \in 1..Len(calls) : calls[k].op = "auth.createUser" /\ calls[k].key = e})

Occurrences(s, x) == Cardinality({k \in 1..Len(s) : s[k] = x})

Writes ==
  {"auth.createUser", "profiles.upsert", "user_roles.insert", "auth.deleteUser",
   "profiles.update"}

\* C1: resume. With N of the M plan items in the ledger found at the start of
\* createUsers, filterUnprocessed yields exactly the M-N items whose email is
\* not in that ledger, and auth.createUser is never issued for a ledgered
\* email during the invocation.
C1_ResumeSkipsLedgered ==
  fn = "create" =>
    LET ledgered == {k \in 1..Len(plan) : plan[k].email \in Range(LedgerAtStart)}
    IN /\ Len(unprocessedUsers) = Len(plan) - Cardinality(ledgered)
       /\ \A u \in Range(unprocessedUsers) : u.email \notin Range(LedgerAtStart)
       /\ \A u \in Range(plan) :
            u.email \notin Range(LedgerAtStart) =>
              Occurrences(unprocessedUsers, u) = Occurrences(plan, u)
       /\ \A e \in Range(LedgerAtStart) : CreateCalls(e) = 0

\* a resumed invocation: the ledger found holds a success and a failure, some
\* plan item is skipped and another one is submitted
C1_Witness ==
  /\ fn = "create"
  /\ atStart.file # <<>>
  /\ atStart.file[1].stats.created > 0
  /\ atStart.file[1].stats.errors > 0
  /\ \E u \in Range(plan) : u.email \in Range(LedgerAtStart)
  /\ \E k \in 1..Len(calls) : calls[k].op = "auth.createUser"

\* C2: within one invocation of createUsers auth.createUser is issued at most
\* once per email, whatever the plan holds.
C2_AtMostOncePerKey ==
  fn = "create" => \A u \in Range(plan) : CreateCalls(u.email) <= 1

\* C3: when createUsers returns after stopping on a failed item, the ledger
\* with every key handled so far is still persisted; the persisted ledger is
\* gone only when the phase was not stopped.
C3_LedgerKeptOnStop ==
  (fn = "create" /\ pc = "returned" /\ halted) =>
    /\ file # <<>>
    /\ \A k \in 1..Len(calls) :
         calls[k].op = "auth.createUser" =>
           calls[k].key \in Range(file[1].processedEmails)

\* an item failed remotely in the running invocation
ItemFailed == \E k \in 1..Len(stats.details) : stats.details[k].status = "error"

\* C4: in both phases, once an item has failed remotely with continueOnError
\* off, no further remote call is issued in the invocation; an item that
\* succeeded, or failed with continueOnError on, is followed by the next one.
C4_StopOrProceed ==
  [][/\ (fn # "none" /\ fn' = fn /\ ItemFailed /\ ~cfg.continueOnError) => calls' = calls
     /\ (/\ pc = "loop" /\ fn' = fn
         /\ Len(calls') > Len(calls)
         /\ (cfg.continueOnError \/ stats'.errors = stats.errors)
         /\ i + 1 < Len(validUsers))
        => (pc' = "loop" /\ i' = i + 1)]_vars

\* the create loop was left on a failed item with items still to go
C4_Witness ==
  /\ fn = "create" /\ pc = "finish"
  /\ ItemFailed /\ ~cfg.continueOnError
  /\ i + 1 < Len(validUsers)

\* C5: in dry-run mode neither phase issues a remote write.
C5_DryRunNoWrites ==
  (fn # "none" /\ cfg.dryRun) =>
    \A k \in 1..Len(calls) : calls[k].op \notin Writes

\* createUsers returned through its dry-run gate with valid items in the plan
C5_Witness ==
  /\ fn = "create" /\ pc = "returned" /\ cfg.dryRun
  /\ Len(validUsers) > 0
  /\ calls = <<>>

\* C6: in dry-run mode the persisted and the in-memory ledger are, when the
\* phase returns, what they were when it was invoked.
C6_DryRunLedgerUntouched ==
  (fn # "none" /\ cfg.dryRun /\ pc = "returned") =>
    (file = atStart.file /\ progress = atStart.progress)

\* C7 as stated: in dry-run mode the returned statistics are all zero.
C7_DryRunStatsAllZero ==
  (fn # "none" /\ cfg.dryRun /\ pc = "returned") =>
    /\ stats.errors = 0
    /\ stats.details = <<>>
    /\ IF fn = "create" THEN stats.created = 0 ELSE stats.deleted = 0

\* C7 as amended: in dry-run mode nothing is counted as created or deleted and
\* no item as remotely failed; softDeleteUsers returns all zeros, createUsers
\* counts exactly the not yet ledgered plan items that fail validation, with
\* one validation_error entry each.
C7_DryRunStatsNoEffect ==
  (fn # "none" /\ cfg.dryRun /\ pc = "returned") =>
    IF fn = "delete"
    THEN stats.deleted = 0 /\ stats.errors = 0 /\ stats.details = <<>>
    ELSE LET rejected == {k \in 1..Len(plan) :
                            /\ plan[k].email \notin Range(LedgerAtStart)
                            /\ ~validateUser(plan[k]).valid}
         IN /\ stats.created = 0
            /\ stats.errors = Cardinality(rejected)
            /\ Len(stats.details) = Cardinality(rejected)
            /\ \A k \in 1..Len(stats.details) :
                 stats.details[k].status = "validation_error"

\* a dry run of createUsers over a plan with a valid and an invalid item
C7_Witness ==
  /\ fn = "create" /\ pc = "returned" /\ cfg.dryRun
  /\ Len(validUsers) > 0
  /\ stats.errors > 0

(***************************************************************************)
(* Properties of the comparator and the plan filters                       *)
(***************************************************************************)
\* the source record resolves to no unit and is not on leave
Unmapped(wsUser) ==
  mapDepartment(wsUser.group) = "null" /\ ~isMaternityLeave(wsUser.title)

Resolvable(wsUser) == ~Unmapped(wsUser)

InSource(key) == \E j \in 1..Len(wsUsers) : toLowerCase(wsUsers[j].email) = key

InTarget(key) == \E j \in 1..Len(supaUsers) : toLowerCase(supaUsers[j].email) = key

\* the entry a source record leaves in a list of missing records
IsEntryOf(e, wsUser) ==
  /\ e.email = wsUser.email
  /\ e.ws_group = OrNone(wsUser.group)
  /\ e.ws_title = OrNone(wsUser.title)

\* C8: a source record with an unmapped group label appears in no list of
\* missing records, adds to no per-unit source count and is not in the create
\* plan, whether or not its key is in the target: the lists, the counts and
\* the plan are those of the snapshot without the unmapped records.
C8_UnmappedIgnored ==
  cpc = "planned" =>
    LET mapped == SelectSeq(wsUsers, Resolvable)
        ref == compareUsers(mapped, supaUsers)
    IN /\ \A k \in 1..Len(wsUsers) :
            Unmapped(wsUsers[k]) =>
              /\ \A e \in Range(compareStats.missing_in_supabase) :
                   ~IsEntryOf(e, wsUsers[k])
              /\ \A e \in Range(usersToCreate) : ~IsEntryOf(e, wsUsers[k])
       /\ compareStats.missing_in_supabase = ref.missing_in_supabase
       /\ \A d \in Departments :
            /\ compareStats.by_department[d].missing_in_supabase =
                 ref.by_department[d].missing_in_supabase
            /\ compareStats.by_department[d].ws_count = ref.by_department[d].ws_count
            /\ compareStats.by_department[d].ws_count =
                 Cardinality({k \in 1..Len(wsUsers) :
                                /\ Resolvable(wsUsers[k])
                                /\ d = IF isMaternityLeave(wsUsers[k].title)
                                       THEN "Dekret"
                                       ELSE mapDepartment(wsUsers[k].group)})
       /\ Len(compareStats.missing_in_supabase) =
            Cardinality({k \in 1..Len(wsUsers) :
                           /\ Resolvable(wsUsers[k])
                           /\ ~InTarget(toLowerCase(wsUsers[k].email))})
       /\ \A e \in Range(usersToCreate) :
            e \in Range(ref.missing_in_supabase) /\ e.department # "null"

\* an unmapped record whose key is not in the target, next to a mapped one
\* that is missing and planned
C8_Witness ==
  /\ cpc = "planned"
  /\ \E k \in 1..Len(wsUsers) :
       Unmapped(wsUsers[k]) /\ ~InTarget(toLowerCase(wsUsers[k].email))
  /\ Len(usersToCreate) > 0

WithUserId(s, uid) == {k \in 1..Len(s) : s[k].user_id = uid}

\* C9: a target record in a tracked unit (the leave unit included) whose
\* lower-cased email is not in the source is exactly once in deleted_from_ws,
\* and exactly once in the soft-delete plan unless its unit is the leave unit,
\* in which case it is not in the plan.
C9_OrphanOncePlannedOnce ==
  cpc = "planned" =>
    \A k \in 1..Len(supaUsers) :
      LET supaUser == supaUsers[k]
      IN (/\ supaUser.department_name \in Departments
          /\ ~InSource(toLowerCase(supaUser.email)))
         => /\ Cardinality(WithUserId(compareStats.deleted_from_ws, supaUser.user_id)) = 1
            /\ Cardinality(WithUserId(usersToDelete, supaUser.user_id)) =
                 IF supaUser.department_name = "Dekret" THEN 0 ELSE 1

\* one orphan in the leave unit and one in a production unit
C9_Witness ==
  /\ cpc = "planned"
  /\ \E j, k \in 1..Len(supaUsers) :
       /\ supaUsers[j].department_name = "Dekret"
       /\ supaUsers[k].department_name = "D1"
       /\ ~InSource(toLowerCase(supaUsers[j].email))
       /\ ~InSource(toLowerCase(supaUsers[k].email))
  /\ Len(usersToDelete) = 1

IndexPermutations(n) ==
  {f \in [1..n -> 1..n] : \A j, k \in 1..n : j # k => f[j] # f[k]}

Permuted(s, f) == [k \in 1..Len(s) |-> s[f[k]]]

SameBag(a, b) ==
  \A x \in Range(a) \cup Range(b) : Occurrences(a, x) = Occurrences(b, x)

SameClassification(r1, r2) ==
  /\ r1.matched = r2.matched
  /\ SameBag(r1.missing_in_supabase, r2.missing_in_supabase)
  /\ SameBag(r1.deleted_from_ws, r2.deleted_from_ws)
  /\ \A d \in Departments :
       LET d1 == r1.by_department[d]
           d2 == r2.by_department[d]
       IN /\ d1.ws_count = d2.ws_count
          /\ d1.supa_count = d2.supa_count
          /\ SameBag(d1.missing_in_supabase, d2.missing_in_supabase)
          /\ SameBag(d1.extra_in_supabase, d2.extra_in_supabase)
          /\ SameBag(d1.department_differences, d2.department_differences)

OrderIndependent ==
  \A f \in IndexPermutations(Len(wsUsers)), g \in IndexPermutations(Len(supaUsers)) :
    SameClassification(compareUsers(Permuted(wsUsers, f), Permuted(supaUsers, g)),
                       compareStats)

\* C10 as stated: for any snapshots, permuting the source and the target
\* records leaves the missing, orphaned and mismatch records, the matched
\* total and every per-unit count unchanged.
C10_OrderIndependentAny ==
  cpc = "compared" => OrderIndependent

UniqueTargetKeys ==
  \A j, k \in 1..Len(supaUsers) :
    j # k => toLowerCase(supaUsers[j].email) # toLowerCase(supaUsers[k].email)

\* C10 as amended: the same, for every source snapshot and every target
\* snapshot in which no two records share a lower-cased email.
C10_OrderIndependentUniqueKeys ==
  (cpc = "compared" /\ UniqueTargetKeys) => OrderIndependent

\* two source and two target records with distinct keys, giving a missing, an
\* orphaned and a mismatch record
C10_Witness ==
  /\ cpc = "compared" /\ UniqueTargetKeys
  /\ Len(wsUsers) >= 2 /\ Len(supaUsers) >= 2
  /\ wsUsers[1] # wsUsers[2]
  /\ compareStats.missing_in_supabase # <<>>
  /\ compareStats.deleted_from_ws # <<>>
  /\ \E d \in Departments : compareStats.by_department[d].department_differences # <<>>

(***************************************************************************)
(* Properties of the single operations                                     *)
(***************************************************************************)
Issued(cs, op) == {k \in 1..Len(cs) : cs[k].op = op}

\* the profile upsert or the role insert of the call failed after the
\* identity had been created
PartialCreate ==
  /\ arg.resp.auth = "ok"
  /\ \/ arg.resp.profile = "error"
     \/ arg.resp.profile = "ok" /\ arg.resp.role = "error"

\* C14: when the profile upsert or the role insert fails (an already assigned
\* role aside) after the identity was created, createUser issues
\* auth.deleteUser for that identity as its last call, exactly once, and
\* returns success = false; when the deletion is accepted the identity is not
\* in the store afterwards.  No deletion is issued in any other case.
C14_RollbackOnPartialCreate ==
  (res # <<>> /\ arg.fn = "createUser") =>
    LET r == res[1]
        dels == Issued(r.calls, "auth.deleteUser")
    IN /\ PartialCreate =>
            /\ ~r.result.success
            /\ r.result.userId = "null"
            /\ Cardinality(dels) = 1
            /\ r.calls[Len(r.calls)] = Call("auth.deleteUser", arg.email)
            /\ arg.resp.delete = "ok" => (arg.email \notin r.auth /\ ~r.exists)
       /\ ~PartialCreate => dels = {}
       /\ (arg.resp.auth = "ok" /\ arg.resp.profile = "ok" /\ arg.resp.role = "duplicate")
            => (r.result.success /\ arg.email \in r.auth)
       /\ \A e \in arg.auth : e \in r.auth

\* the role insert failed, the identity was deleted again, another identity
\* of the store is still there
C14_Witness ==
  /\ res # <<>> /\ arg.fn = "createUser"
  /\ arg.resp.auth = "ok" /\ arg.resp.profile = "ok" /\ arg.resp.role = "error"
  /\ arg.resp.delete = "ok"
  /\ arg.auth # {}
  /\ Len(res[1].calls) = 4
  /\ arg.email \notin res[1].auth

\* C15: when the rollback deletion is not accepted, the object createUser
\* returns differs from the one it returns for every failure without a failed
\* rollback (a refused identity, or a rollback that went through).
C15_RollbackFailureEscalated ==
  (/\ res # <<>> /\ arg.fn = "createUser"
   /\ PartialCreate /\ arg.resp.delete # "ok") =>
    \A r2 \in Responses :
      LET other == createUser(arg.email, r2)
      IN (~other.success /\ (r2.auth = "error" \/ r2.delete = "ok")) =>
           [success |-> other.success, userId |-> other.userId,
            error |-> other.error] # res[1].result

\* C16: softDeleteUser issues exactly one remote operation, the update of
\* profiles that sets department_id and team_id to the ids of the retired
\* unit and sub-unit for the rows whose user_id is the item's; no identity is
\* deleted, every other row and every other attribute of the row stay as they
\* were.
C16_SoftDeleteOneUpdate ==
  (res # <<>> /\ arg.fn = "softDeleteUser") =>
    LET r == res[1]
        uid == arg.user.user_id
    IN /\ r.calls = <<Call("profiles.update", uid)>>
       /\ r.update.table = "profiles"
       /\ r.update.eq = uid
       /\ r.update.set =
            [department_id |-> deletedDepartmentId, team_id |-> deletedTeamId]
       /\ Issued(r.calls, "auth.deleteUser") = {}
       /\ Cardinality(r.rows) = Cardinality(arg.rows)
       /\ \A row \in arg.rows :
            IF row.user_id # uid \/ arg.resp # "ok"
            THEN row \in r.rows
            ELSE [row EXCEPT !.department_id = deletedDepartmentId,
                             !.team_id = deletedTeamId] \in r.rows

\* an accepted soft delete of one of several rows
C16_Witness ==
  /\ res # <<>> /\ arg.fn = "softDeleteUser"
  /\ arg.resp = "ok"
  /\ Cardinality(arg.rows) >= 2
  /\ \E row \in arg.rows : row.user_id = arg.user.user_id
  /\ res[1].rows # arg.rows

(***************************************************************************)
(* Properties of the comparator over one unit                              *)
(***************************************************************************)
\* C11: for every unit of by_department, ws_count is the number of source
\* records resolved to the unit, supa_count the number of target rows in the
\* unit, and matched the number of resolvable source records whose key is in
\* the target.  Three source records of unit D1 with distinct keys against a
\* target of three D1 rows, two of them with keys of the source and one with
\* another key, give one missing and one orphaned record, matched = 2,
\* ws_count = 3 and supa_count = 3.
C11_CountsPerUnit ==
  cpc \in {"compared", "planned"} =>
    /\ \A d \in Departments :
         /\ compareStats.by_department[d].ws_count =
              Cardinality({k \in 1..Len(wsUsers) : expectedDepartment(wsUsers[k]) = d})
         /\ compareStats.by_department[d].supa_count =
              Cardinality({k \in 1..Len(supaUsers) : supaUsers[k].department_name = d})
    /\ compareStats.matched =
         Cardinality({k \in 1..Len(wsUsers) :
                        /\ Resolvable(wsUsers[k])
                        /\ InTarget(toLowerCase(wsUsers[k].email))})
    /\ (/\ Len(wsUsers) = 3 /\ Len(supaUsers) = 3
        /\ \A k \in 1..3 : expectedDepartment(wsUsers[k]) = "D1"
        /\ \A k \in 1..3 : supaUsers[k].department_name = "D1"
        /\ \A j, k \in 1..3 : j # k => wsUsers[j].email # wsUsers[k].email
        /\ Cardinality({k \in 1..3 : InSource(toLowerCase(supaUsers[k].email))}) = 2)
       => /\ Len(compareStats.missing_in_supabase) = 1
          /\ Len(compareStats.deleted_from_ws) = 1
          /\ compareStats.matched = 2
          /\ compareStats.by_department["D1"].ws_count = 3
          /\ compareStats.by_department["D1"].supa_count = 3
          /\ Len(compareStats.by_department["D1"].missing_in_supabase) = 1
          /\ Len(compareStats.by_department["D1"].extra_in_supabase) = 1

\* the scenario: three source records of D1, the target holding two of them
\* and one row of D1 with another email
C11_Witness ==
  /\ cpc = "compared"
  /\ Len(wsUsers) = 3 /\ Len(supaUsers) = 3
  /\ \A k \in 1..3 : expectedDepartment(wsUsers[k]) = "D1"
  /\ \A k \in 1..3 : supaUsers[k].department_name = "D1"
  /\ \A j, k \in 1..3 : j # k => wsUsers[j].email # wsUsers[k].email
  /\ Cardinality({k \in 1..3 : InSource(toLowerCase(supaUsers[k].email))}) = 2
  /\ compareStats.matched = 2

(***************************************************************************)
(* Properties of the plans: the leave unit                                 *)
(***************************************************************************)
\* C13: a source record with a leave title whose key is not in the target is
\* in missing_in_supabase under the leave unit and is not in the create plan;
\* a target row of the leave unit whose key is not in the source is in
\* deleted_from_ws and is not in the soft-delete plan; neither plan holds an
\* item of the leave unit.
C13_LeaveNeverPlanned ==
  cpc = "planned" =>
    /\ \A e \in Range(usersToCreate) :
         e.department # "Dekret" /\ ~isMaternityLeave(e.ws_title)
    /\ \A e \in Range(usersToDelete) :
         e.departmentName # "Dekret" /\ e.supa_department # "Dekret"
    /\ \A k \in 1..Len(wsUsers) :
         (isMaternityLeave(wsUsers[k].title) /\ ~InTarget(toLowerCase(wsUsers[k].email)))
         => /\ \E e \in Range(compareStats.missing_in_supabase) :
                 IsEntryOf(e, wsUsers[k]) /\ e.department = "Dekret"
            /\ \E e \in Range(compareStats.by_department["Dekret"].missing_in_supabase) :
                 e.email = wsUsers[k].email
            /\ \A e \in Range(usersToCreate) : ~IsEntryOf(e, wsUsers[k])
    /\ \A k \in 1..Len(supaUsers) :
         (supaUsers[k].department_name = "Dekret" /\ ~InSource(toLowerCase(supaUsers[k].email)))
         => /\ WithUserId(compareStats.deleted_from_ws, supaUsers[k].user_id) # {}
            /\ WithUserId(usersToDelete, supaUsers[k].user_id) = {}

\* a missing source record on leave and an orphaned row of the leave unit,
\* both reported and neither planned
C13_Witness ==
  /\ cpc = "planned"
  /\ \E k \in 1..Len(wsUsers) :
       isMaternityLeave(wsUsers[k].title) /\ ~InTarget(toLowerCase(wsUsers[k].email))
  /\ \E k \in 1..Len(supaUsers) :
       supaUsers[k].department_name = "Dekret" /\ ~InSource(toLowerCase(supaUsers[k].email))
  /\ Len(compareStats.missing_in_supabase) > Len(usersToCreate)
  /\ Len(compareStats.deleted_from_ws) > Len(usersToDelete)
  /\ Len(usersToCreate) > 0

(***************************************************************************)
(* Properties of the create phase: validation                              *)
(***************************************************************************)
\* the items of the create loop that have been submitted so far
Handled == i + (IF halted THEN 1 ELSE 0)

\* the item has an email with "@", a name and a unit of the loaded unit map
Acceptable(u) ==
  /\ u.email # "" /\ HasAt(u.email)
  /\ u.name # ""
  /\ u.department \in departmentMap

Invalid(s) == {k \in 1..Len(s) : ~Acceptable(s[k])}

DetailsWith(status) == {k \in 1..Len(stats.details) : stats.details[k].status = status}

C20_ValidationNeverHalts ==
  (/\ fn = "create" /\ pc = "returned" /\ ~cfg.dryRun
   /\ \A u \in Range(plan) : u.email \notin Range(LedgerAtStart)
   /\ DetailsWith("error") = {}) =>
    LET n == Len(plan)
        v == Cardinality(Invalid(plan))
    IN /\ Cardinality(Issued(calls, "auth.createUser")) = n - v
       /\ stats.created = n - v
       /\ stats.errors = v
       /\ file = <<>>
       /\ progress = ConstructorProgress

(***************************************************************************)
(* Properties of a run of syncUsers                                        *)
(***************************************************************************)
\* the remote calls of the run so far
AllCalls == runCalls \o calls

\* the profile rows of the target snapshot (a team is named by its unit)
TargetRows(supa) ==
  {ProfileRow(supa[k].user_id, supa[k].email, supa[k].department_name,
              supa[k].department_name, "pos:1") : k \in 1..Len(supa)}

\* the rows once every update of a sequence of calls has been applied
RECURSIVE RowsAfter(_, _)
RowsAfter(rows, cs) ==
  IF cs = <<>> THEN rows
  ELSE LET c == Head(cs)
       IN RowsAfter(IF c.op = "profiles.update"
                    THEN profilesUpdate(rows, softDeleteUpdate([user_id |-> c.key]))
                    ELSE rows,
                    Tail(cs))

\* the run has compared the snapshots
Compared == spc \in {"create", "delete", "returned", "caught"} /\ compareStats # <<>>

Mismatches ==
  UNION {Range(compareStats.by_department[d].department_differences) : d \in Departments}

\* C12: a record listed in department_differences is a resolvable source
\* record whose key is in the target, so it is counted in matched; no item of
\* the create plan or of the soft-delete plan has its key, no remote write of
\* the run is issued for its email or for the user_id of a target row with
\* its key, and those rows are, after every update of the run, what they
\* were in the snapshot.  The run reports it under updated, and unchanged is
\* matched minus the differences.
C12_MismatchReportOnly ==
  Compared =>
    /\ compareStats.matched =
         Cardinality({k \in 1..Len(wsUsers) :
                        /\ Resolvable(wsUsers[k])
                        /\ InTarget(toLowerCase(wsUsers[k].email))})
    /\ \A e \in Mismatches :
         LET key == toLowerCase(e.email)
             rows == {r \in TargetRows(supaUsers) : toLowerCase(r.email) = key}
         IN /\ \E k \in 1..Len(wsUsers) :
                 /\ wsUsers[k].email = e.email
                 /\ Resolvable(wsUsers[k])
                 /\ InTarget(key)
                 /\ e.ws_expected = expectedDepartment(wsUsers[k])
                 /\ e.supa_actual # e.ws_expected
            /\ \A u \in Range(usersToCreate) : toLowerCase(u.email) # key
            /\ \A u \in Range(usersToDelete) : toLowerCase(u.email) # key
            /\ \A u \in Range(plan) : toLowerCase(u.email) # key
            /\ \A c \in Range(AllCalls) :
                 IF c.op = "profiles.update"
                 THEN \A r \in rows : c.key # r.user_id
                 ELSE toLowerCase(c.key) # key
            /\ rows # {}
            /\ \A r \in rows : r \in RowsAfter(TargetRows(supaUsers), AllCalls)
    /\ spc \in {"delete", "returned", "caught"} =>
         /\ finalStats.updated = Cardinality({k \in 1..Len(wsUsers) :
              /\ Resolvable(wsUsers[k])
              /\ toLowerCase(wsUsers[k].email) \in DOMAIN byEmail(supaUsers)
              /\ byEmail(supaUsers)[toLowerCase(wsUsers[k].email)].department_name
                   # expectedDepartment(wsUsers[k])})
    /\ spc = "returned" =>
         finalStats.unchanged = compareStats.matched - finalStats.updated

\* a run that created one user and moved another one while a third record
\* was only reported as a unit mismatch
C12_Witness ==
  /\ spc = "returned"
  /\ Mismatches # {}
  /\ finalStats.created = 1
  /\ finalStats.deleted = 1
  /\ finalStats.updated = 1
  /\ RowsAfter(TargetRows(supaUsers), AllCalls) # TargetRows(supaUsers)

\* a reference table lacks something loadReferenceData needs
Defective(db) ==
  \/ db.subdivision # "ok"
  \/ db.departmentsError
  \/ db.teamsError
  \/ \E n \in neededDepartments : n \notin {d.name : d \in db.departments}
  \/ \E d \in db.departments : d.name \in Range(getSupabaseDepartments) /\ ~d.parentOk
  \/ \E n \in neededDepartments : n \notin db.teams
  \/ ~db.position \/ ~db.category \/ ~db.role

\* C17: when a unit, a required team, the default position, category or role
\* is missing, a production unit has the wrong parent or a reference query
\* fails, loadReferenceData throws and the run ends in the catch of syncUsers:
\* the comparator is not run, neither createUsers nor softDeleteUsers is
\* invoked, no remote write is issued and the ledger is not touched.
C17_RefFailureHaltsBeforeWrites ==
  (refData # <<>> /\ (Defective(refData[1].db) \/ ~refData[1].ok)) =>
    /\ ~refData[1].ok
    /\ spc = "caught"
    /\ fn = "none" /\ pc = "idle"
    /\ AllCalls = <<>>
    /\ compareStats = <<>>
    /\ usersToCreate = <<>> /\ usersToDelete = <<>>
    /\ finalStats.created = 0 /\ finalStats.deleted = 0
    /\ file = <<>> /\ progress = ConstructorProgress

\* the last check of loadReferenceData, the default role, failed
C17_Witness ==
  /\ refData # <<>>
  /\ refData[1].error = "role"
  /\ spc = "caught"
  /\ finalStats.errors = 1

\* C18: a run never ends the process, and a run that ended in the catch of
\* syncUsers returns statistics with the error counted and recorded.
C18_AlwaysReturnsStats ==
  /\ spc # "exited"
  /\ spc = "caught" => (finalStats.errors >= 1 /\ finalStats.errorDetails # <<>>)

(***************************************************************************)
(* Properties of createUser: a role that is already assigned               *)
(***************************************************************************)
\* the identity and the profile were accepted, the role insert was refused
\* with a message that contains "duplicate"
DuplicateRole ==
  /\ res # <<>> /\ arg.fn = "createUser"
  /\ arg.resp.auth = "ok" /\ arg.resp.profile = "ok" /\ arg.resp.role = "duplicate"

\* C27: when the role insert is refused because the role is already
\* assigned, createUser returns success = true with the id of the identity
\* it created and no error, issues no auth.deleteUser (the identity stays in
\* the store), and the loop of createUsers counts the item as created.
C27_DuplicateRoleIsSuccess ==
  DuplicateRole =>
    LET r == res[1]
    IN /\ r.result = [success |-> TRUE, userId |-> arg.email, error |-> "null"]
       /\ r.calls = <<Call("auth.createUser", arg.email),
                      Call("profiles.upsert", arg.email),
                      Call("user_roles.insert", arg.email)>>
       /\ r.auth = arg.auth \cup {arg.email}
       /\ r.stats.created = 1 /\ r.stats.errors = 0
       /\ r.stats.details[1].status = "created"

\* the role was already assigned and another identity is in the store
C27_Witness ==
  /\ DuplicateRole
  /\ arg.auth = {"c@x"}
  /\ res[1].result.success
  /\ res[1].stats.created = 1

(***************************************************************************)
(* Properties of the ledger at the end of a phase and across phases        *)
(***************************************************************************)
\* the items of validUsers the loop has submitted
Attempted == IF halted THEN i + 1 ELSE i

\* C21: when a create phase that is not a dry run has returned with every
\* item that was not in the ledger handled (submitted, or rejected by
\* validation), no ledger file is left and the ledger in memory is empty.
C21_LedgerClearedAtEnd ==
  (/\ fn = "create" /\ pc = "returned" /\ ~cfg.dryRun
   /\ Attempted = Len(validUsers)) =>
    /\ file = <<>>
    /\ progress.processedEmails = <<>>

\* C23: while softDeleteUsers runs there is a ledger of the soft-delete
\* phase, in memory and on disk, and every item the loop has handled is
\* recorded in it.
C23_SoftDeleteLedger ==
  (fn = "delete" /\ pc \in {"loop", "finish"}) =>
    /\ file # <<>>
    /\ progress.phase = "delete"
    /\ \A k \in 1..Len(stats.details) : isProcessed(Tracker, stats.details[k].email)

(***************************************************************************)
(* Properties of retry                                                     *)
(***************************************************************************)
\* the options as the caller reads them in the documentation of retry
GivenMaxRetries == IF rt.options.maxRetries = <<>> THEN 3 ELSE rt.options.maxRetries[1]
GivenBaseDelay == IF rt.options.baseDelay = <<>> THEN 1000 ELSE rt.options.baseDelay[1]
GivenMaxDelay == IF rt.options.maxDelay = <<>> THEN 10000 ELSE rt.options.maxDelay[1]
GivenOperationName ==
  IF rt.options.operationName = "undefined" THEN "operation" ELSE rt.options.operationName

\* the first invocation of the thunk that returns, 0 when none does
FirstReturn ==
  IF \E k \in 1..Len(rt.answers) : rt.answers[k] = "return"
  THEN CHOOSE k \in 1..Len(rt.answers) :
         /\ rt.answers[k] = "return"
         /\ \A j \in 1..(k - 1) : rt.answers[j] # "return"
  ELSE 0

RECURSIVE Doubled(_, _)
Doubled(x, n) == IF n = 0 THEN x ELSE Doubled(x + x, n - 1)

\* C24: the thunk is invoked once per attempt and at most maxRetries
\* (default 3) times; retry returns what the first invocation that does not
\* throw returned, without a further invocation; it gives up only after
\* maxRetries invocations have thrown, whatever the errors were, and until
\* then it goes on.
C24_BoundedUnconditionalRetry ==
  LET n == Len(rt.invoked)
  IN /\ n <= GivenMaxRetries
     /\ \A j \in 1..n : rt.invoked[j] = j
     /\ rt.rpc = "returned" =>
          /\ FirstReturn = n
          /\ n >= 1
          /\ rt.result = [message |-> "value", at |-> n]
     /\ rt.rpc = "thrown" =>
          /\ FirstReturn = 0
          /\ n = GivenMaxRetries
     /\ rt.rpc \in {"try", "wait"} =>
          /\ \A j \in 1..n : rt.answers[j] # "return"
          /\ ENABLED (RetryAttempt \/ RetryWake \/ RetryLoopExit)

\* with the default options the third invocation returns, after errors of two
\* types
C24_Witness ==
  /\ rt.options.maxRetries = <<>>
  /\ rt.rpc = "returned"
  /\ rt.answers = <<"TypeError", "NetworkError", "return">>
  /\ Len(rt.invoked) = 3
  /\ rt.result.at = 3

\* C25: the k-th attempt, 2 <= k <= maxRetries, is preceded by one wait of
\* min(baseDelay * 2^(k-2), maxDelay); nothing is awaited before attempt 1
\* nor after the last failed attempt.
C25_BackoffDelays ==
  LET n == Len(rt.invoked)
      w == Len(rt.waits)
  IN /\ \A j \in 1..w :
          LET k == j + 1
              d == Doubled(GivenBaseDelay, k - 2)
          IN /\ rt.waits[j].after = k - 1
             /\ rt.waits[j].ms = IF d <= GivenMaxDelay THEN d ELSE GivenMaxDelay
             /\ k <= GivenMaxRetries
     /\ rt.rpc = "try" => w = rt.attempt - 1
     /\ rt.rpc = "wait" => w = n
     /\ rt.rpc \in {"returned", "thrown"} /\ n >= 1 => w = n - 1
     /\ n = 0 => w = 0

\* four attempts with baseDelay 3000 and the default cap: the third wait is
\* capped
C25_Witness ==
  /\ rt.rpc = "thrown"
  /\ Len(rt.invoked) = 4
  /\ Len(rt.waits) = 3
  /\ rt.waits[1].ms = 3000 /\ rt.waits[2].ms = 6000 /\ rt.waits[3].ms = 10000

\* C26 as stated: the error that retry raises when every attempt has thrown
\* is the last attempt's error and carries the attempt count and the
\* operation name.
C26_RethrowTagged ==
  (rt.rpc = "thrown" /\ Len(rt.invoked) >= 1) =>
    /\ rt.thrown.at = Len(rt.invoked)
    /\ {"attempts", "operation"} \subseteq DOMAIN rt.thrown

\* C26 amended: the error that retry raises when every attempt has thrown is
\* the last attempt's error as it was thrown; the attempt count and the
\* operation name are in the entry written to the error log.
C26_RethrowLastLogged ==
  (rt.rpc = "thrown" /\ Len(rt.invoked) >= 1) =>
    LET n == Len(rt.invoked)
    IN /\ n = GivenMaxRetries
       /\ rt.thrown = [message |-> rt.answers[n], at |-> n]
       /\ rt.log[Len(rt.log)] = [level |-> "error",
                                 operation |-> GivenOperationName,
                                 attempts |-> GivenMaxRetries,
                                 message |-> rt.answers[n]]
       /\ \A j \in 1..(Len(rt.log) - 1) : rt.log[j].level = "warning"

\* two attempts that threw errors of different types
C26_Witness ==
  /\ rt.rpc = "thrown"
  /\ rt.answers = <<"TypeError", "NetworkError">>
  /\ rt.options.operationName = "profiles.update"
  /\ rt.thrown.message = "NetworkError"
  /\ Len(rt.log) = 2

(***************************************************************************)
(* Properties of the notifier calls of a run                               *)
(***************************************************************************)
\* C28: whatever Telegram answers to a notifier call, the step of syncUsers
\* that makes the call ends where the other inputs alone put it: after the
\* start notification loadReferenceData has run and its outcome decides
\* between going on and the catch; after the completion report finalStats is
\* returned with the counts of the phases; after the error report finalStats
\* is returned from the catch.  syncUsers never rejects.
C28_NotifierFailureNeverAborts ==
  [][LET new == SubSeq(notified', Len(notified) + 1, Len(notified'))
     IN Len(new) > 0 =>
          /\ spc' # "rejected"
          /\ new[1].kind = "started" =>
               /\ refData' # <<>>
               /\ spc' = IF refData'[1].ok THEN "compare" ELSE "caught"
               /\ finalStats'.errors =
                    finalStats.errors + (IF refData'[1].ok THEN 0 ELSE 1)
               /\ Len(new) = IF refData'[1].ok THEN 1 ELSE 2
          /\ new[1].kind = "report" =>
               /\ spc' = "returned"
               /\ Len(new) = 1
               /\ finalStats'.errors =
                    finalStats.errors + (IF fn = "delete" THEN stats.errors ELSE 0)
               /\ finalStats'.created = finalStats.created
          /\ new[1].kind = "error" =>
               /\ spc' = "caught"
               /\ Len(new) = 1
               /\ finalStats'.errors >= finalStats.errors + 1]_vars

\* both notifications of a run that created a user were refused by Telegram
C28_Witness ==
  /\ spc = "returned"
  /\ notified = <<[kind |-> "started", failed |-> TRUE],
                  [kind |-> "report", failed |-> TRUE]>>
  /\ finalStats.created >= 1
  /\ Issued(runCalls, "auth.createUser") # {}

(***************************************************************************)
(* Properties of the incremental persistence of the ledger                 *)
(***************************************************************************)
PersistedKeys == IF file = <<>> THEN {} ELSE Range(file[1].processedEmails)

\* the keys handled so far that a process ending now would not find again
LossWindow == Cardinality(Range(progress.processedEmails) \ PersistedKeys)

\* an iteration of the loop records its item
Recorded ==
  LET key == validUsers[i + 1].email
      before == progress.stats.created + progress.stats.errors
      after == progress'.stats.created + progress'.stats.errors
  IN /\ progress'.processedEmails = Append(progress.processedEmails, key)
     /\ after = before + 1
     /\ progress'.stats.deleted = progress.stats.deleted
     /\ ~halted' => (pc' = "saving" <=> Len(progress'.processedEmails) % 10 = 0)
     /\ file' = file

\* C22: an iteration appends its key to the ledger, updates the counters and
\* starts a write of the ledger exactly when the ledger's length has become
\* a multiple of 10; and wherever the process ends inside the loop, at most
\* 9 handled keys are missing from the persisted ledger.
C22_PersistEveryTenth ==
  [][/\ (fn = "create" /\ pc = "loop" /\ fn' = "create") => Recorded
     /\ (fn' = "create" /\ pc' \in {"loop", "saving", "finish"}) => LossWindow' <= 9]_vars

(***************************************************************************)
(* Properties of the end of the process                                    *)
(***************************************************************************)
\* the keys of the items the running phase has submitted
HandledKeys ==
  {stats.details[k].email :
     k \in {j \in 1..Len(stats.details) : stats.details[j].status # "validation_error"}}

\* C29: when the process ends on a signal inside the create or the
\* soft-delete loop, every item that was submitted has completed and is in
\* the persisted ledger.
C29_ExitAfterItemPersisted ==
  [][(pc \in {"loop", "finish"} /\ pc' = "idle" /\ fn' = "none") =>
       HandledKeys \subseteq PersistedKeys]_vars

(***************************************************************************)
(* Properties of the ownership of the ledger                               *)
(***************************************************************************)
InProgress(r) == inv[r].pc \in {"loop", "finish"}

\* C30: two invocations are never in progress together, each between its
\* load of the shared ledger and its clear.
C30_OneRunOwnsLedger ==
  \A r1, r2 \in Invocations : (InProgress(r1) /\ InProgress(r2)) => r1 = r2

(***************************************************************************)
(* Properties of the loop of a phase                                       *)
(***************************************************************************)
HasDone(what, item, before) ==
  \E p \in 1..(before - 1) : lp.done[p] = Did(what, item)

CallsUpTo(q) == Cardinality({p \in 1..q : lp.done[p].what = "call"})

\* C31: within a phase the items are handled one after the other in plan
\* order: at most one item is in flight, and the call for an item is made
\* only when the call of the item before it has settled and its statistics
\* and (in the create phase) its ledger entry have been written.
C31_OneItemAtATime ==
  /\ Cardinality(lp.inflight) <= 1
  /\ \A q \in 1..Len(lp.done) :
       lp.done[q].what = "call" =>
         LET k == lp.done[q].item
         IN /\ CallsUpTo(q) = k + 1
            /\ k > 0 => /\ HasDone("settled", k - 1, q)
                        /\ HasDone("stats", k - 1, q)
                        /\ lp.phase = "create" => HasDone("ledger", k - 1, q)

\* a create phase of three items or more has run to its end, an item having
\* failed on the way
C31_Witness ==
  /\ lp.phase = "create"
  /\ lp.at = "done"
  /\ lp.i = lp.length
  /\ lp.length >= 3
  /\ \E k \in 1..Len(lp.results) : ~lp.results[k]
  /\ \E k \in 1..Len(lp.results) : lp.results[k]

\* the loop was left by break at item lp.i
LeftByBreak == lp.at = "done" /\ lp.i < lp.length

\* the items whose bookkeeping is over and after which the loop went on
Continued ==
  {k \in 0..(lp.length - 1) :
     /\ HasDone("stats", k, Len(lp.done) + 1)
     /\ ~(LeftByBreak /\ k = lp.i)}

\* C32: the pause is awaited after an item exactly when the number of items
\* handled so far is a positive multiple of the batch size and an item
\* remains.
C32_PauseAfterEveryBatch ==
  \A k \in Continued :
    HasDone("pause", k, Len(lp.done) + 1)
      <=> ((k + 1) % lp.batchSize = 0 /\ k + 1 < lp.length)

(***************************************************************************)
(* Properties of the comparator: records of the retired unit               *)
(***************************************************************************)
\* the target rows that hold the key of a source record
RowsOf(wsUser) ==
  {j \in 1..Len(supaUsers) :
     toLowerCase(supaUsers[j].email) = toLowerCase(wsUser.email)}

\* the source records whose key a target row of the retired unit holds
Reappeared ==
  {k \in 1..Len(wsUsers) :
     \E j \in RowsOf(wsUsers[k]) : supaUsers[j].department_name = DELETED_DEPARTMENT}

\* the source records whose key only rows of the retired unit hold
ReappearedOnly ==
  {k \in Reappeared :
     \A j \in RowsOf(wsUsers[k]) : supaUsers[j].department_name = DELETED_DEPARTMENT}

PlansWithout(wsUser) ==
  /\ \A u \in Range(compareStats.missing_in_supabase) :
       toLowerCase(u.email) # toLowerCase(wsUser.email)
  /\ \A u \in Range(usersToCreate) : toLowerCase(u.email) # toLowerCase(wsUser.email)
  /\ \A u \in Range(usersToDelete) : toLowerCase(u.email) # toLowerCase(wsUser.email)
  /\ \A u \in Range(usersToDelete) : u.supa_department # DELETED_DEPARTMENT

RetiredMismatch(wsUser) ==
  \E e \in Range(compareStats.by_department[expectedDepartment(wsUser)]
                   .department_differences) :
    /\ e.email = wsUser.email
    /\ e.ws_expected = expectedDepartment(wsUser)
    /\ e.supa_actual = DELETED_DEPARTMENT
    /\ e.ws_title = OrNone(wsUser.title)

\* C37: a source record whose key a target row of the retired unit holds is
\* in no create plan and no soft-delete plan, and is listed as a unit
\* mismatch against the retired unit.
C37_RetiredMatchedNotCreated ==
  cpc = "planned" =>
    \A k \in Reappeared :
      /\ PlansWithout(wsUsers[k])
      /\ Resolvable(wsUsers[k])
      /\ RetiredMismatch(wsUsers[k])

\* the unit mismatches listed against the retired unit for a key
RetiredEntries(key) ==
  {x \in Departments \X (1..Len(wsUsers)) :
     /\ x[2] <= Len(compareStats.by_department[x[1]].department_differences)
     /\ LET e == compareStats.by_department[x[1]].department_differences[x[2]]
        IN toLowerCase(e.email) = key /\ e.supa_actual = DELETED_DEPARTMENT}

\* C37 (amended): such a record is in no create plan and no soft-delete
\* plan; when only rows of the retired unit hold its key, it is listed as a
\* unit mismatch against the retired unit if its unit is resolvable, and the
\* mismatches listed for the key are as many as the source records of the key
\* with a resolvable unit: a record with no resolvable unit is not listed.
C37_RetiredNeverPlanned ==
  cpc = "planned" =>
    /\ \A k \in Reappeared : PlansWithout(wsUsers[k])
    /\ \A k \in ReappearedOnly :
         /\ Resolvable(wsUsers[k]) => RetiredMismatch(wsUsers[k])
         /\ Cardinality(RetiredEntries(toLowerCase(wsUsers[k].email))) =
              Cardinality({j \in 1..Len(wsUsers) :
                             /\ toLowerCase(wsUsers[j].email) = toLowerCase(wsUsers[k].email)
                             /\ Resolvable(wsUsers[j])})
    /\ compareStats.matched >=
         Cardinality({k \in ReappearedOnly : Resolvable(wsUsers[k])})

\* a record of a tracked unit whose only target row is in the retired unit,
\* next to a record of the same key with no resolvable unit
C37_Witness ==
  /\ cpc = "planned"
  /\ \E k \in ReappearedOnly :
       /\ expectedDepartment(wsUsers[k]) \in Range(getSupabaseDepartments)
       /\ RetiredMismatch(wsUsers[k])
  /\ \E k \in ReappearedOnly : Unmapped(wsUsers[k])

(***************************************************************************)
(* Properties of loadReferenceData                                         *)
(***************************************************************************)
Loaded == res # <<>> /\ arg.fn = "loadReferenceData"

\* what the reference tables lack: units, "<unit> - Obshchaya" teams (that of
\* the retired unit included) and defaults
MissingPieces(db) ==
  {Piece("unit", n) : n \in neededDepartments \ {d.name : d \in db.departments}}
    \cup {Piece("team", n) : n \in neededDepartments \ db.teams}
    \cup {Piece("default", x) :
            x \in {y \in {"position", "category", "role"} : ~db[y]}}

Populated(r) ==
  /\ neededDepartments \subseteq r.departmentMap
  /\ neededDepartments \subseteq DOMAIN r.teamMap
  /\ r.db.subdivision = "ok"
  /\ r.db.position /\ r.db.category /\ r.db.role

\* C34: loadReferenceData returns a bundle with the parent unit, every tracked
\* unit and its team, the retired unit and its team and the three defaults,
\* or throws an error that names every piece the tables lack.
C34_PopulatedOrAllNamed ==
  Loaded =>
    IF res[1].ok THEN Populated(res[1])
    ELSE MissingPieces(arg.db) \subseteq res[1].named

\* C35: a bundle is returned only when the team found for each tracked unit
\* belongs to that unit.
C35_TeamBelongsToUnit ==
  (Loaded /\ res[1].ok) =>
    \A n \in Range(getSupabaseDepartments) : res[1].teamMap[n] = n

(***************************************************************************)
(* Properties of a reference read                                          *)
(***************************************************************************)
\* the remote writes of one item, whatever the remote answers
WritesOf(cs, op) == Cardinality({k \in 1..Len(cs) : cs[k].op = op})

SingleShotWrites ==
  /\ \A resp \in Responses :
       \A op \in {"auth.createUser", "profiles.upsert", "user_roles.insert",
                  "auth.deleteUser"} :
         WritesOf(createUser("a@x", resp).calls, op) <= 1
  /\ \A resp \in UpdateResponses, u \in DeleteItems :
       Len(softDeleteUser(u, resp).calls) = 1

\* C36: a reference read is given up, and the run aborted, only after the
\* query was made maxRetries (3) times with a wait after each failure but the
\* last, whereas a write of a phase is issued once per item.
C36_ReadsRetriedWritesOnce ==
  /\ SingleShotWrites
  /\ rt.rpc = "aborted" =>
       /\ Len(rt.invoked) = rt.opt.maxRetries
       /\ Len(rt.waits) = rt.opt.maxRetries - 1

(***************************************************************************)
(* Properties of a run: the two phases                                     *)
(***************************************************************************)
CreateOps == {"auth.createUser", "profiles.upsert", "user_roles.insert", "auth.deleteUser"}

\* the create phase is left for the soft-delete step
CreateStepOver == spc = "create" /\ spc' = "delete"

\* the soft-delete step is left and the run ends
RunEnds == spc = "delete" /\ spc' \in {"returned", "caught", "rejected"}

\* what the phases have in common in both statements of C38: the soft-delete
\* plan is built whatever the create phase returned, softDeleteUsers is
\* invoked with all of it, and no call of the create phase follows a call of
\* the soft-delete phase
PhasesInTurn ==
  /\ CreateStepOver =>
       /\ usersToDelete' = SelectSeq(compareStats.deleted_from_ws, deleteFilter)
       /\ finalStats'.errors = IF fn = "create" THEN stats.errors ELSE 0
  /\ (spc = "delete" /\ pc = "idle" /\ usersToDelete # <<>>) =>
       /\ fn' = "delete"
       /\ plan' = usersToDelete
       /\ validUsers' = usersToDelete
  /\ LET cs == runCalls' \o calls'
     IN \A p, q \in 1..Len(cs) :
          (p < q /\ cs[p].op = "profiles.update") => cs[q].op \notin CreateOps

\* C38: a create phase that stopped on an error or counted errors does not
\* keep the soft-delete phase from being invoked, with the whole soft-delete
\* plan, after the create phase has finished; the error counter of the run is
\* the sum of the error counts of the two phases.
C38_PhasesIndependent ==
  [][/\ PhasesInTurn
     /\ RunEnds =>
          finalStats'.errors =
            finalStats.errors + (IF fn = "delete" THEN stats.errors ELSE 0)]_vars

\* C38 (amended): the same, the error counter of the run being the sum of
\* the error counts of the two phases when the run returns from the try
\* block, and that sum plus one when it ends in the catch.
C38_PhasesIndependentCatchCounted ==
  [][/\ PhasesInTurn
     /\ RunEnds =>
          finalStats'.errors =
            finalStats.errors + (IF fn = "delete" THEN stats.errors ELSE 0)
              + (IF spc' = "returned" THEN 0 ELSE 1)]_vars

\* with continueOnError off the only create call of the run failed, and the
\* soft-delete phase still issued its update; both phases counted an error
C38_Witness ==
  /\ spc = "returned"
  /\ ~cfg.dryRun /\ ~cfg.continueOnError
  /\ Len(usersToCreate) >= 2
  /\ Cardinality({k \in 1..Len(runCalls) : runCalls[k].op = "auth.createUser"}) = 1
  /\ finalStats.created = 0
  /\ Issued(runCalls, "profiles.update") # {}
  /\ finalStats.deleted = 0
  /\ finalStats.errors >= 2

\* C39: finalStats.deletedUsers lists only users that softDeleteUsers moved
\* to the retired unit in this run.
C39_DeletedUsersWereMoved ==
  [][RunEnds =>
       \A k \in 1..Len(finalStats'.deletedUsers) :
         /\ fn = "delete"
         /\ \E d \in Range(stats.details) :
              /\ d.email = finalStats'.deletedUsers[k]
              /\ d.status = "moved_to_deleted"]_vars

(***************************************************************************)
(* Properties of the batch loops: accounting                               *)
(***************************************************************************)
LedgerCount(p) == p.stats.created + p.stats.errors

\* the step appends one key to the ledger and counts it once
OneKeyCounted ==
  /\ Len(progress'.processedEmails) = Len(progress.processedEmails) + 1
  /\ LedgerCount(progress') = LedgerCount(progress) + 1

\* the statistics of the running phase after the step
PhaseAccounting ==
  /\ fn' = "create" =>
       /\ stats'.created + stats'.errors = Len(stats'.details)
       /\ pc' \in {"loop", "finish"} =>
            Len(stats'.details) =
              (Len(unprocessedUsers') - Len(validUsers')) + i' + (IF halted' THEN 1 ELSE 0)
  /\ fn' = "delete" =>
       /\ stats'.deleted + stats'.errors = Len(stats'.details)
       /\ pc' \in {"loop", "finish"} =>
            Len(stats'.details) = i' + (IF halted' THEN 1 ELSE 0)
  /\ (fn = "create" /\ pc = "loop" /\ fn' = "create") => OneKeyCounted

\* an invocation has made the remote calls of an item
Attempts(r) == inv[r].pc = "loop" /\ Len(inv'[r].calls) > Len(inv[r].calls)

\* C40: in the loops stats.created (stats.deleted) + stats.errors is the
\* number of entries of stats.details, one per item attempted or rejected by
\* validation, and every item attempted in the create loop adds one key to
\* the ledger and one to the sum of the ledger's created and errors counters.
C40_Accounting ==
  [][/\ PhaseAccounting
     /\ \A r \in Invocations : Attempts(r) => OneKeyCounted]_vars

(***************************************************************************)
(* SpecResume: a run started over the ledger an ended process left behind  *)
(* (part_001 lines 49-61; SpecLedger reaches such a file through           *)
(* LedgerTerminate after the save before the break of user-create.js:278). *)
(***************************************************************************)
\* the file written after the item of a@x was refused
StaleLedger ==
  [NewProgress("create") EXCEPT !.processedEmails = <<"a@x">>,
                                !.stats.errors = 1]

InitResume ==
  /\ file = <<StaleLedger>>
  /\ progress = ConstructorProgress
  /\ cfg \in LedgerCfgs
  /\ fn = "none"
  /\ pc = "idle"
  /\ plan = <<>>
  /\ unprocessedUsers = <<>>
  /\ validUsers = <<>>
  /\ i = 0
  /\ stats = NoStats
  /\ halted = FALSE
  /\ calls = <<>>
  /\ atStart = [progress |-> ConstructorProgress, file |-> <<StaleLedger>>]
  /\ CmpOff
  /\ usersToCreate = <<>>
  /\ usersToDelete = <<>>
  /\ spc = "start"
  /\ sendNotifications \in BOOLEAN
  /\ refData = <<>>
  /\ finalStats = NoFinalStats
  /\ runCalls = <<>>
  /\ notified = <<>>
  /\ OpsOff

SpecResume == InitResume /\ [][NextRun]_vars

(***************************************************************************)
(* Properties of a run: convergence                                        *)
(***************************************************************************)
\* the rows the accepted creates of a plan add to the target
RECURSIVE CreatedRows(_, _)
CreatedRows(items, cs) ==
  IF items = <<>> THEN <<>>
  ELSE LET u == Head(items)
           rest == CreatedRows(Tail(items), cs)
       IN IF \E k \in 1..Len(cs) : cs[k] = Call("profiles.upsert", u.email)
          THEN <<SupaUser(u.email, u.email, u.first_name, u.last_name, u.department)>>
                 \o rest
          ELSE rest

\* the target after a run all of whose remote writes were accepted
TargetAfter ==
  [k \in 1..Len(supaUsers) |->
     IF \E c \in 1..Len(runCalls) :
          runCalls[c] = Call("profiles.update", supaUsers[k].user_id)
     THEN [supaUsers[k] EXCEPT !.department_name = DELETED_DEPARTMENT]
     ELSE supaUsers[k]]
    \o CreatedRows(usersToCreate, runCalls)

SecondCompare == compareUsers(wsUsers, TargetAfter)

\* a run that applies its plans has returned without an error
CleanRun == spc = "returned" /\ ~cfg.dryRun /\ finalStats.errors = 0

\* C33: after a run that applied its plans without an error, the comparison
\* of the same source with the resulting target plans nothing to create and
\* nothing to soft-delete: the created records are matched, the records moved
\* to the retired unit are counted in no unit and are not orphans.
C33_SecondRunPlansNothing ==
  CleanRun =>
    /\ SelectSeq(SecondCompare.missing_in_supabase, createFilter) = <<>>
    /\ SelectSeq(SecondCompare.deleted_from_ws, deleteFilter) = <<>>
    /\ \A u \in Range(usersToCreate) :
         toLowerCase(u.email) \in DOMAIN byEmail(TargetAfter)
    /\ \A u \in Range(usersToDelete) :
         \A e \in Range(SecondCompare.deleted_from_ws) : e.user_id # u.user_id

====
